---- MODULE Spec2Model ----
(***************************************************************************)
(* A model of the salon point-of-sale front end and the tables it writes.  *)
(*                                                                         *)
(* Money is held in cents: the tables store DECIMAL(10,2), the price and   *)
(* discount inputs step by 0.01, and the rounding of a stored value takes  *)
(* away the error of the form's floating-point sums.  A phone number is a  *)
(* sequence of digits.  The row store is the four tables of the migration; *)
(* the page state is the React state of src/pages/Visits.tsx.  The         *)
(* variables outcome and lastEvent record what the page last showed or did *)
(* (a toast, a click the browser did not dispatch, the response that last  *)
(* wrote the suggestion list); no action reads them.                       *)
(* An async handler is one action per stretch of code between two awaits:  *)
(* other events of the page may happen while it waits.                     *)
(***************************************************************************)
EXTENDS Integers, Sequences, FiniteSets, TLC

(***************************************************************************)
(* Bounds of the model.                                                    *)
(***************************************************************************)
MaxVisits == 2          \* rows the visits table may hold in SpecVisit
MaxHistory == 3         \* rows the visits table holds in SpecLookup
MaxInFlight == 2        \* customer lookups awaiting their response at once
MaxRows == 3            \* rows the visits table holds in SpecReports

(***************************************************************************)
(* Identities and form inputs.                                             *)
(***************************************************************************)
ServiceIds == {"A", "B", "C"}
EmployeeIds == {"e1", "e2"}
Users == {"u1"}
NoUser == "null"
Names == {"Ann", "Bob"}
\* What the name input is set to by typing: a name, or empty again.
TypedNames == {"", "Ann"}

\* Phone numbers on record, and what is typed or pasted into the phone input.
\* (No input holds the LIKE wildcards % and _.)
DbPhones == {<<1, 1, 2, 1>>, <<1, 2, 1, 2>>}
PhoneInputs == {<<>>, <<1, 2>>, <<1, 2, 1>>, <<2, 1, 2>>, <<1, 1, 1>>}

\* if (phone.length >= 3)
MinLookupLen == 3

\* The discount field of the form: empty, or a number of cents (min="0").
DiscountFields == {<<>>, <<500>>, <<4000>>}

\* Toasts of the visit form, and the two non-toast results of a click.
ErrEmployee == "Please assign an employee to all selected services"
ErrAuth == "You must be logged in"
ErrVisit == "Failed to create visit"
ErrServices == "Failed to save services"
OkVisit == "Visit recorded successfully!"

VARIABLES
    \* ---- row store
    db_services,        \* services table: id -> [name, price, duration_minutes, active]
    profiles,           \* profiles table: id -> [full_name, active]
    visits,             \* visits table, in order of created_at
    visit_services,     \* visit_services table: a set of line items
    user,               \* the session's user, or NoUser
    \* ---- Visits page
    page,               \* the mounted page: "visits", "reports", ..., or "home"
    loading,
    services,           \* the form's copy of the active services
    employees,          \* the form's copy of the active employees
    selectedServices,
    serviceEmployees,   \* service id -> employee id, for some services
    customerName,
    customerPhone,
    matchingCustomers,
    showDropdown,
    fetchPc,            \* where fetchData is: "services", "employees", "done"
    pc,                 \* where handleSubmit is: "idle" or the await it is at
    sub,                \* what the running handleSubmit closed over
    outcome,            \* the last toast, or "none", "blocked", "pending"
    \* ---- customer lookup
    inflight,           \* lookups awaiting their response, in order of issue
    lastEvent           \* what last wrote the suggestion list

VARIABLES
    \* ---- clock, and the role column of the session user's profile
    now,                \* what new Date() returns, in hours
    db_role,
    \* ---- Reports page
    dateRange,
    reportPc,           \* where fetchReports is: "idle" or the query it awaits
    run,                \* what the running fetchReports closed over
    dailySales,
    employeePerformance,
    servicePerformance,
    peakHours,
    paymentMethods,
    customerRetention,
    avgTicketValues,
    \* ---- Overview dashboard
    stats,
    dashPc,             \* where fetchDashboardStats is
    dash,               \* what the running fetchDashboardStats closed over
    \* ---- Customers page
    customers,
    customerDates,      \* the two date pickers: <<day>>, or <<>> for undefined
    customersPc,
    \* ---- Services page and Employees page
    servicesList,       \* the Services page's copy of the services table
    editingService,
    dialogOpen,
    servicesPc,         \* "idle", or "fetch" while fetchServices awaits
    employeesList,      \* the Employees page's copy of the profiles table
    employeesPc,
    adminEvent          \* what the last request of an admin page did: "error" when
                        \* it was refused, "reactivate" when an edit set an
                        \* inactive service active, "rewrite" when a toggle
                        \* wrote the flag that was stored; "none" otherwise

VARIABLES
    \* ---- requests whose component is gone or has moved on
    detached,           \* visit submissions of a form that was unmounted since
    staleRuns,          \* fetchReports runs of a range that was changed since
    \* ---- ProtectedRoute
    requiredRole,       \* the prop of the mounted route: a role, or "none"
    guardUser,
    guardRole,          \* userRole: a role, or "null"
    guardLoading,
    checkAuth,          \* where checkAuth is, and the session user it read
    callbacks           \* auth-state-change callbacks awaiting their profile query

guardVars == <<requiredRole, guardUser, guardRole, guardLoading, checkAuth, callbacks>>
lateVars == <<detached, staleRuns, guardVars>>

reportVars == <<dateRange, reportPc, run, dailySales, employeePerformance,
                servicePerformance, peakHours, paymentMethods, customerRetention,
                avgTicketValues>>
dashVars == <<stats, dashPc, dash>>
customersVars == <<customers, customerDates, customersPc>>
catalogVars == <<servicesList, editingService, dialogOpen, servicesPc,
                 employeesList, employeesPc, adminEvent>>
\* Everything outside the visit form.
adminVars == <<now, db_role, reportVars, dashVars, customersVars, catalogVars, lateVars>>

vars == <<db_services, profiles, visits, visit_services, user, page, loading,
          fetchPc, services, employees, selectedServices, serviceEmployees,
          customerName, customerPhone, matchingCustomers, showDropdown,
          pc, sub, outcome, inflight, lastEvent, adminVars>>

dbVars == <<db_services, profiles, visits, visit_services>>
formVars == <<fetchPc, services, employees, selectedServices, serviceEmployees>>
lookupVars == <<customerPhone, matchingCustomers, showDropdown, inflight, lastEvent>>
submitVars == <<loading, pc, sub, outcome>>

(***************************************************************************)
(* Helpers.                                                                *)
(***************************************************************************)
RECURSIVE SumOver(_, _)
\* reduce((sum, x) => sum + f[x], 0) over a finite set.
SumOver(S, f) ==
    IF S = {} THEN 0
    ELSE LET x == CHOOSE y \in S : TRUE IN f[x] + SumOver(S \ {x}, f)

VisitIds(vs) == {vs[i].id : i \in 1..Len(vs)}

EmptyFn == [x \in {} |-> x]

NoSub == [selected |-> {}, emps |-> EmptyFn, services |-> {}, customerName |-> "",
          customerPhone |-> <<>>, discount |-> 0, uid |-> NoUser,
          totalAmount |-> 0, finalAmount |-> 0, visitId |-> 0, rows |-> {}]

(***************************************************************************)
(* The Visits page: mount and form state.                                  *)
(***************************************************************************)
\* Mutant: the select does not filter on active.
ActiveServicesAndInactive(tbl) ==
    {[id |-> s, price |-> tbl[s].price] : s \in DOMAIN tbl}

\* .from("services").select(...).eq("active", true)
ActiveServices(tbl) ==
    {[id |-> s, price |-> tbl[s].price] : s \in {x \in DOMAIN tbl : tbl[x].active}}

\* .from("profiles").select(...).eq("active", true)
ActiveEmployees(tbl) == {e \in DOMAIN tbl : tbl[e].active}

\* The useState initial values: what a mount creates and an unmount discards.
FreshForm ==
    /\ loading' = FALSE
    /\ fetchPc' = "services"
    /\ services' = {}
    /\ employees' = {}
    /\ selectedServices' = {}
    /\ serviceEmployees' = EmptyFn
    /\ customerName' = ""
    /\ customerPhone' = <<>>
    /\ matchingCustomers' = <<>>
    /\ showDropdown' = FALSE
    /\ lastEvent' = [kind |-> "init", q |-> <<>>]

\* Opening /visits mounts the form; fetchData then runs.
OpenVisitForm ==
    /\ page = "home"
    /\ page' = "visits"
    /\ FreshForm
    /\ outcome' = "none"
    /\ UNCHANGED <<adminVars, dbVars, user, pc, sub, inflight>>

\* fetchData: the two selects of the mount effect, each one setState.
FetchServices ==
    /\ page = "visits"
    /\ fetchPc = "services"
    /\ fetchPc' = "employees"
    /\ services' = ActiveServices(db_services)
    /\ UNCHANGED <<adminVars, dbVars, user, page, employees, selectedServices, serviceEmployees,
                   customerName, lookupVars, submitVars>>

FetchEmployees ==
    /\ page = "visits"
    /\ fetchPc = "employees"
    /\ fetchPc' = "done"
    /\ employees' = ActiveEmployees(profiles)
    /\ UNCHANGED <<adminVars, dbVars, user, page, services, selectedServices, serviceEmployees,
                   customerName, lookupVars, submitVars>>

\* Mutant: deselecting keeps the assignment.
toggleServiceKeepsEmployee(serviceId) ==
    /\ page = "visits"
    /\ serviceId \in {s.id : s \in services}
    /\ selectedServices' = IF serviceId \in selectedServices
                           THEN selectedServices \ {serviceId}
                           ELSE selectedServices \cup {serviceId}
    /\ UNCHANGED <<adminVars, dbVars, user, page, fetchPc, services, employees, customerName,
                   serviceEmployees, lookupVars, submitVars>>

\* The checkbox of a listed service: deselecting drops the assignment as well.
toggleService(serviceId) ==
    /\ page = "visits"
    /\ serviceId \in {s.id : s \in services}
    /\ IF serviceId \in selectedServices
       THEN /\ selectedServices' = selectedServices \ {serviceId}
            /\ serviceEmployees' =
                 [s \in DOMAIN serviceEmployees \ {serviceId} |-> serviceEmployees[s]]
       ELSE /\ selectedServices' = selectedServices \cup {serviceId}
            /\ UNCHANGED serviceEmployees
    /\ UNCHANGED <<adminVars, dbVars, user, page, fetchPc, services, employees, customerName,
                   lookupVars, submitVars>>

\* The employee select is rendered for selected services only.
setEmployeeForService(serviceId, employeeId) ==
    /\ page = "visits"
    /\ serviceId \in selectedServices
    /\ employeeId \in employees
    /\ serviceEmployees' =
         [s \in DOMAIN serviceEmployees \cup {serviceId} |->
            IF s = serviceId THEN employeeId ELSE serviceEmployees[s]]
    /\ UNCHANGED <<adminVars, dbVars, user, page, fetchPc, services, employees,
                   selectedServices, customerName, lookupVars, submitVars>>

\* onChange of the (required) customer name input.
setCustomerName(name) ==
    /\ page = "visits"
    /\ customerName # name
    /\ customerName' = name
    /\ UNCHANGED <<adminVars, dbVars, user, page, formVars, lookupVars, submitVars>>

(***************************************************************************)
(* handleSubmit of the visit form, one action per await.                   *)
(***************************************************************************)
\* Mutant: the button is disabled while loading only.
SubmitDisabledWhileLoadingOnly == loading

\* disabled={loading || selectedServices.size === 0} on the submit button.
SubmitDisabled == loading \/ selectedServices = {}

\* parseFloat(formData.get("discount")) || 0: an empty field parses to NaN.
parseDiscount(field) == IF Len(field) = 0 THEN 0 ELSE field[1]

\* Mutant: the loop is satisfied by the first service that has an employee.
AllAssignedStopsAtFirst(selected, emps) ==
    selected = {} \/ \E s \in selected : s \in DOMAIN emps

\* The loop over selectedServices: no service with a falsy serviceEmployees entry.
AllAssigned(selected, emps) == \A s \in selected : s \in DOMAIN emps

\* Mutant: the price of whichever service the list holds first.
PriceOfAnyListed(svcs, serviceId) ==
    IF svcs = {} THEN 0 ELSE (CHOOSE s \in svcs : TRUE).price

\* service?.price || 0, with service = services.find(s => s.id === serviceId)
PriceOf(svcs, serviceId) ==
    IF \E s \in svcs : s.id = serviceId
    THEN (CHOOSE s \in svcs : s.id = serviceId).price
    ELSE 0

\* Mutant: the total of every listed service.
calculateTotalOfListed(selected, svcs) ==
    LET ids == {s.id : s \in svcs}
    IN SumOver(ids, [s \in ids |-> PriceOf(svcs, s)])

\* reduce over Array.from(selectedServices) of the prices in the form's list.
calculateTotal(selected, svcs) ==
    SumOver(selected, [s \in selected |-> PriceOf(svcs, s)])

\* Mutant: the final amount is floored at zero.
FinalAmountClamped(totalAmount, discount) ==
    IF totalAmount - discount < 0 THEN 0 ELSE totalAmount - discount

\* const finalAmount = totalAmount - discount
FinalAmount(totalAmount, discount) == totalAmount - discount

\* Mutant: the user check is missing.
NotLoggedInUnchecked(u) == FALSE

\* if (!user)
NotLoggedIn(u) == u = NoUser

\* A click on the submit control (or Enter in a field) that the browser does not
\* turn into a submit event: the button is disabled, or the required name is empty.
ClickBlocked ==
    /\ page = "visits"
    /\ SubmitDisabled \/ customerName = ""
    /\ outcome' = "blocked"
    /\ UNCHANGED <<adminVars, dbVars, user, page, formVars, customerName, lookupVars,
                   loading, pc, sub>>

\* handleSubmit up to its first await: read the form, check the assignments.
handleSubmit(discountField) ==
    /\ page = "visits"
    /\ ~SubmitDisabled
    /\ customerName # ""
    /\ Len(visits) < MaxVisits
    /\ IF ~AllAssigned(selectedServices, serviceEmployees)
       THEN /\ outcome' = ErrEmployee
            /\ loading' = FALSE
            /\ UNCHANGED <<pc, sub>>
       ELSE /\ loading' = TRUE
            /\ pc' = "getUser"
            /\ sub' = [NoSub EXCEPT !.selected = selectedServices,
                                    !.emps = serviceEmployees,
                                    !.services = services,
                                    !.customerName = customerName,
                                    !.customerPhone = customerPhone,
                                    !.discount = parseDiscount(discountField)]
            /\ outcome' = "pending"
    /\ UNCHANGED <<adminVars, dbVars, user, page, formVars, customerName, lookupVars>>

\* auth.getUser() has answered: reject, or compute the amounts and send the insert.
GetUserReturns ==
    /\ pc = "getUser"
    /\ IF NotLoggedIn(user)
       THEN /\ outcome' = ErrAuth
            /\ loading' = FALSE
            /\ pc' = "idle"
            /\ sub' = NoSub
       ELSE /\ LET totalAmount == calculateTotal(sub.selected, sub.services)
               IN sub' = [sub EXCEPT !.uid = user,
                                     !.totalAmount = totalAmount,
                                     !.finalAmount = FinalAmount(totalAmount, sub.discount)]
            /\ pc' = "insertVisit"
            /\ UNCHANGED <<outcome, loading>>
    /\ UNCHANGED <<adminVars, dbVars, user, page, formVars, customerName, lookupVars>>

\* Policy "Employees can create visits": WITH CHECK (created_by = auth.uid()).
VisitInsertAllowed(row) == user # NoUser /\ row.created_by = user

\* visit_services: the three foreign keys, and the policy "Employees can create
\* visit services" (the visit exists and was created by auth.uid()).
VisitServicesInsertAllowed(rows) ==
    /\ user # NoUser
    /\ \A r \in rows :
         /\ r.service_id \in DOMAIN db_services
         /\ r.employee_id \in DOMAIN profiles
         /\ \E i \in 1..Len(visits) : visits[i].id = r.visit_id /\ visits[i].created_by = user

\* The row of .from("visits").insert({...}); the id is the table's default.
VisitRow(s, id) ==
    [id |-> id, customer_name |-> s.customerName, customer_phone |-> s.customerPhone,
     total_amount |-> s.totalAmount, discount |-> s.discount,
     final_amount |-> s.finalAmount, payment_method |-> "cash",
     created_by |-> s.uid, created_at |-> now]

\* serviceEmployees[serviceId]: undefined for a service with no entry.
EmployeeOf(emps, serviceId) ==
    IF serviceId \in DOMAIN emps THEN emps[serviceId] ELSE "undefined"

\* Mutant: the line items carry another id than the inserted visit's.
VisitServiceRowsWrongVisit(s, visitId) ==
    {[visit_id |-> visitId + 1, service_id |-> serviceId,
      employee_id |-> EmployeeOf(s.emps, serviceId),
      service_price |-> PriceOf(s.services, serviceId)] : serviceId \in s.selected}

\* Array.from(selectedServices).map(serviceId => ({...}))
VisitServiceRows(s, visitId) ==
    {[visit_id |-> visitId, service_id |-> serviceId,
      employee_id |-> EmployeeOf(s.emps, serviceId),
      service_price |-> PriceOf(s.services, serviceId)] : serviceId \in s.selected}

\* Mutant: the failed visit insert returns without setLoading(false).
InsertVisitFailsStaysLoading ==
    /\ pc = "insertVisit"
    /\ outcome' = ErrVisit
    /\ pc' = "idle"
    /\ sub' = NoSub
    /\ UNCHANGED <<adminVars, dbVars, user, page, formVars, customerName, lookupVars, loading>>

\* The visit insert failed (a request error, or the policy refused the row).
InsertVisitFails ==
    /\ pc = "insertVisit"
    /\ outcome' = ErrVisit
    /\ loading' = FALSE
    /\ pc' = "idle"
    /\ sub' = NoSub
    /\ UNCHANGED <<adminVars, dbVars, user, page, formVars, customerName, lookupVars>>

\* The visit insert returned the new row: build the line items and send them.
InsertVisitSucceeds ==
    /\ pc = "insertVisit"
    /\ LET id == Len(visits) + 1
           row == VisitRow(sub, id)
       IN /\ VisitInsertAllowed(row)
          /\ visits' = Append(visits, row)
          /\ sub' = [sub EXCEPT !.visitId = id, !.rows = VisitServiceRows(sub, id)]
    /\ pc' = "insertServices"
    /\ UNCHANGED <<adminVars, db_services, profiles, visit_services, user, page, formVars,
                   customerName, lookupVars, loading, outcome>>

\* Mutant: a failed line-item insert deletes the visit row again.
InsertServicesFailsAndRollsBack ==
    /\ pc = "insertServices"
    /\ visits' = SelectSeq(visits, LAMBDA v : v.id # sub.visitId)
    /\ outcome' = ErrServices
    /\ loading' = FALSE
    /\ pc' = "idle"
    /\ sub' = NoSub
    /\ UNCHANGED <<adminVars, db_services, profiles, visit_services, user, page, formVars,
                   customerName, lookupVars>>

\* The line-item insert failed: a toast, and nothing else.
InsertServicesFails ==
    /\ pc = "insertServices"
    /\ outcome' = ErrServices
    /\ loading' = FALSE
    /\ pc' = "idle"
    /\ sub' = NoSub
    /\ UNCHANGED <<adminVars, dbVars, user, page, formVars, customerName, lookupVars>>

\* The line items are stored: toast, navigate("/"), which unmounts the form.
InsertServicesSucceeds ==
    /\ pc = "insertServices"
    /\ VisitServicesInsertAllowed(sub.rows)
    /\ visit_services' = visit_services \cup sub.rows
    /\ outcome' = OkVisit
    /\ page' = "home"
    /\ FreshForm
    /\ pc' = "idle"
    /\ sub' = NoSub
    /\ UNCHANGED <<adminVars, db_services, profiles, visits, user, inflight>>

\* The Cancel button: navigate("/"), disabled while loading.
Cancel ==
    /\ page = "visits"
    /\ ~loading
    /\ page' = "home"
    /\ FreshForm
    /\ UNCHANGED <<adminVars, dbVars, user, pc, sub, outcome, inflight>>

\* The session ends (expiry, or a sign-out elsewhere).
SignOut ==
    /\ user # NoUser
    /\ user' = NoUser
    /\ UNCHANGED <<adminVars, dbVars, page, formVars, customerName, lookupVars, submitVars>>

(***************************************************************************)
(* The customer resolver: handlePhoneChange and the dropdown.              *)
(***************************************************************************)
\* ilike '%phone%' on a column of digits: the phone occurs in the column.
Contains(str, part) ==
    \E i \in 0..(Len(str) - Len(part)) : SubSeq(str, i + 1, i + Len(part)) = part

\* The positions of the visits the query matches.
Matching(vs, phone) == {i \in 1..Len(vs) : Contains(vs[i].customer_phone, phone)}

\* select customer_name, customer_phone ... order by created_at desc: the
\* matching visits from the last inserted to the first.
RECURSIVE QueryCustomers(_, _)
QueryCustomers(vs, phone) ==
    IF Len(vs) = 0 THEN <<>>
    ELSE LET v == vs[Len(vs)]
             rest == QueryCustomers(SubSeq(vs, 1, Len(vs) - 1), phone)
         IN IF Contains(v.customer_phone, phone)
            THEN <<[customer_name |-> v.customer_name,
                    customer_phone |-> v.customer_phone]>> \o rest
            ELSE rest

\* Mutant: no duplicate is removed.
uniqueCustomersKeepsAll(data) == data

\* data.reduce((acc, current) => ...): push current unless acc holds its phone.
uniqueCustomers(data) ==
    LET acc[i \in 0..Len(data)] ==
          IF i = 0 THEN <<>>
          ELSE IF \E k \in 1..Len(acc[i - 1]) :
                     acc[i - 1][k].customer_phone = data[i].customer_phone
               THEN acc[i - 1]
               ELSE Append(acc[i - 1], data[i])
    IN acc[Len(data)]

\* handlePhoneChange (the input's onChange) up to its await: a short phone clears the suggestions, a
\* longer one sends the query.
handlePhoneChange(phone) ==
    /\ page = "visits"
    /\ phone # customerPhone
    /\ customerPhone' = phone
    /\ customerName' = ""
    /\ IF Len(phone) >= MinLookupLen
       THEN /\ Len(inflight) < MaxInFlight
            /\ inflight' = Append(inflight, phone)
            /\ UNCHANGED <<matchingCustomers, showDropdown, lastEvent>>
       ELSE /\ matchingCustomers' = <<>>
            /\ showDropdown' = FALSE
            /\ lastEvent' = [kind |-> "short", q |-> phone]
            /\ UNCHANGED inflight
    /\ UNCHANGED <<adminVars, dbVars, user, page, formVars, submitVars>>

RemoveAt(seq, i) == SubSeq(seq, 1, i - 1) \o SubSeq(seq, i + 1, Len(seq))

\* Mutant: a response is dropped unless it answers the current input.
LookupReturnsIfCurrent(i) ==
    /\ page = "visits"
    /\ i \in 1..Len(inflight)
    /\ LET data == QueryCustomers(visits, inflight[i])
       IN IF inflight[i] # customerPhone
          THEN UNCHANGED <<matchingCustomers, showDropdown>>
          ELSE IF Len(data) > 0
          THEN /\ matchingCustomers' = uniqueCustomers(data)
               /\ showDropdown' = TRUE
          ELSE /\ matchingCustomers' = <<>>
               /\ showDropdown' = FALSE
    /\ lastEvent' = [kind |-> "data", q |-> inflight[i]]
    /\ inflight' = RemoveAt(inflight, i)
    /\ UNCHANGED <<adminVars, dbVars, user, page, formVars, customerName, customerPhone, submitVars>>

\* The rest of handlePhoneChange, run when the response to the i-th lookup in
\* flight arrives: responses arrive in any order.
LookupReturns(i) ==
    /\ page = "visits"
    /\ i \in 1..Len(inflight)
    /\ LET data == QueryCustomers(visits, inflight[i])
       IN IF Len(data) > 0
          THEN /\ matchingCustomers' = uniqueCustomers(data)
               /\ showDropdown' = TRUE
          ELSE /\ matchingCustomers' = <<>>
               /\ showDropdown' = FALSE
    /\ lastEvent' = [kind |-> "data", q |-> inflight[i]]
    /\ inflight' = RemoveAt(inflight, i)
    /\ UNCHANGED <<adminVars, dbVars, user, page, formVars, customerName, customerPhone, submitVars>>

\* The request failed: data is null, which takes the else branch.
LookupFails(i) ==
    /\ page = "visits"
    /\ i \in 1..Len(inflight)
    /\ matchingCustomers' = <<>>
    /\ showDropdown' = FALSE
    /\ lastEvent' = [kind |-> "null", q |-> inflight[i]]
    /\ inflight' = RemoveAt(inflight, i)
    /\ UNCHANGED <<adminVars, dbVars, user, page, formVars, customerName, customerPhone, submitVars>>

\* A click on an entry of the dropdown, which is rendered while showDropdown
\* holds and the list is not empty.
handleCustomerSelect(k) ==
    /\ page = "visits"
    /\ showDropdown
    /\ k \in 1..Len(matchingCustomers)
    /\ customerPhone' = matchingCustomers[k].customer_phone
    /\ customerName' = matchingCustomers[k].customer_name
    /\ showDropdown' = FALSE
    /\ UNCHANGED <<adminVars, dbVars, user, page, formVars, matchingCustomers, inflight,
                   lastEvent, submitVars>>

\* onFocus of the phone input.
PhoneFocus ==
    /\ page = "visits"
    /\ Len(matchingCustomers) > 0
    /\ showDropdown' = TRUE
    /\ UNCHANGED <<adminVars, dbVars, user, page, formVars, customerName, customerPhone,
                   matchingCustomers, inflight, lastEvent, submitVars>>

\* The timer that onBlur of the phone input sets fires.
PhoneBlurTimeout ==
    /\ page = "visits"
    /\ showDropdown' = FALSE
    /\ UNCHANGED <<adminVars, dbVars, user, page, formVars, customerName, customerPhone,
                   matchingCustomers, inflight, lastEvent, submitVars>>

(***************************************************************************)
(* Leaving the visit form while handleSubmit is running.  The links of the  *)
(* Layout stay usable; the unmounted form's handler goes on to its end,    *)
(* its setLoading calls have no effect, its toasts and its navigate do.    *)
(***************************************************************************)
MaxDetached == 1        \* submissions that go on after their form was unmounted

adminPages == <<now, db_role, reportVars, dashVars, customersVars, catalogVars>>

\* The submission of the mounted form, if one is running.
Running == IF pc = "idle" THEN <<>> ELSE <<[pc |-> pc, sub |-> sub]>>

\* A link of the Layout (Dashboard) is clicked on /visits: the form is
\* unmounted, whether it is loading or not.
LayoutNavigate ==
    /\ page = "visits"
    /\ Len(detached) + Len(Running) <= MaxDetached
    /\ page' = "home"
    /\ FreshForm
    /\ detached' = detached \o Running
    /\ pc' = "idle"
    /\ sub' = NoSub
    /\ UNCHANGED <<adminPages, staleRuns, guardVars, dbVars, user, outcome, inflight>>

\* navigate("/") called by a handler whose form is gone: whatever form is
\* mounted now is unmounted, and its own submission goes on without it.
NavigateHome(rest) ==
    /\ page \in {"home", "visits"}
    /\ page' = "home"
    /\ IF page = "visits"
       THEN /\ FreshForm
            /\ detached' = rest \o Running
            /\ pc' = "idle"
            /\ sub' = NoSub
            /\ UNCHANGED inflight
       ELSE /\ detached' = rest
            /\ UNCHANGED <<loading, formVars, customerName, lookupVars, pc, sub>>

DetachedGetUserReturns(i) ==
    /\ i \in 1..Len(detached)
    /\ detached[i].pc = "getUser"
    /\ LET d == detached[i].sub
           totalAmount == calculateTotal(d.selected, d.services)
       IN IF NotLoggedIn(user)
          THEN /\ outcome' = ErrAuth
               /\ detached' = RemoveAt(detached, i)
          ELSE /\ detached' =
                    [detached EXCEPT ![i] =
                       [pc |-> "insertVisit",
                        sub |-> [d EXCEPT !.uid = user,
                                          !.totalAmount = totalAmount,
                                          !.finalAmount = FinalAmount(totalAmount, d.discount)]]]
               /\ UNCHANGED outcome
    /\ UNCHANGED <<adminPages, staleRuns, guardVars, dbVars, user, page, loading, formVars,
                   customerName, lookupVars, pc, sub>>

DetachedInsertVisitFails(i) ==
    /\ i \in 1..Len(detached)
    /\ detached[i].pc = "insertVisit"
    /\ outcome' = ErrVisit
    /\ detached' = RemoveAt(detached, i)
    /\ UNCHANGED <<adminPages, staleRuns, guardVars, dbVars, user, page, loading, formVars,
                   customerName, lookupVars, pc, sub>>

DetachedInsertVisitSucceeds(i) ==
    /\ i \in 1..Len(detached)
    /\ detached[i].pc = "insertVisit"
    /\ LET d == detached[i].sub
           id == Len(visits) + 1
           row == VisitRow(d, id)
       IN /\ VisitInsertAllowed(row)
          /\ visits' = Append(visits, row)
          /\ detached' =
               [detached EXCEPT ![i] =
                  [pc |-> "insertServices",
                   sub |-> [d EXCEPT !.visitId = id, !.rows = VisitServiceRows(d, id)]]]
    /\ UNCHANGED <<adminPages, staleRuns, guardVars, db_services, profiles, visit_services,
                   user, page, loading, formVars, customerName, lookupVars, pc, sub, outcome>>

DetachedInsertServicesFails(i) ==
    /\ i \in 1..Len(detached)
    /\ detached[i].pc = "insertServices"
    /\ outcome' = ErrServices
    /\ detached' = RemoveAt(detached, i)
    /\ UNCHANGED <<adminPages, staleRuns, guardVars, dbVars, user, page, loading, formVars,
                   customerName, lookupVars, pc, sub>>

\* The line items of an unmounted form are stored: toast, navigate("/").
DetachedInsertServicesSucceeds(i) ==
    /\ i \in 1..Len(detached)
    /\ detached[i].pc = "insertServices"
    /\ VisitServicesInsertAllowed(detached[i].sub.rows)
    /\ visit_services' = visit_services \cup detached[i].sub.rows
    /\ outcome' = OkVisit
    /\ NavigateHome(RemoveAt(detached, i))
    /\ UNCHANGED <<adminPages, staleRuns, guardVars, db_services, profiles, visits, user>>

(***************************************************************************)
(* ProtectedRoute.  One instance guards whatever route is shown: the       *)
(* routes of App put the same component at the same place, so a change of  *)
(* route changes its requiredRole prop and keeps its state.                *)
(***************************************************************************)
MaxCallbacks == 2       \* auth-state-change callbacks awaiting their query

\* Who can hold the session: u1, whose profile has db_role, and an employee.
GuardUsers == {"u1", "u2"}
RequiredRoles == {"none", "admin"}

\* select role from profiles where id = ... (.single())
ProfileRole(u) == IF u = "u1" THEN db_role ELSE "employee"

\* session.user.user_metadata?.role ?? "employee"
MetadataRole(u) == IF u = "u1" THEN "admin" ELSE "employee"

guardRest == <<adminPages, detached, staleRuns, dbVars, page, formVars, customerName,
               lookupVars, submitVars>>

\* Mutant: the role is not looked at.
RenderIgnoringRole ==
    IF guardLoading THEN "spinner"
    ELSE IF guardUser = NoUser THEN "auth"
    ELSE "children"

\* What ProtectedRoute returns.
Render ==
    IF guardLoading THEN "spinner"
    ELSE IF guardUser = NoUser THEN "auth"
    ELSE IF requiredRole # "none" /\ guardRole # requiredRole THEN "home"
    ELSE "children"

\* <Navigate to="/auth"> leaves the guarded routes: the instance is gone.
GuardMounted == Render # "auth"

\* A guarded route is opened, after a sign-in at /auth or by a reload: a new
\* instance, whose effect starts checkAuth and subscribes.  What the
\* instance before it has in flight sets state of a component that is gone.
GuardMount(role, u) ==
    /\ u = user \/ ~GuardMounted
    /\ user' = u
    /\ requiredRole' = role
    /\ guardUser' = NoUser
    /\ guardRole' = "null"
    /\ guardLoading' = TRUE
    /\ checkAuth' = [pc |-> "getSession", user |-> NoUser]
    /\ callbacks' = <<>>
    /\ UNCHANGED guardRest

\* A link or a redirect changes the route shown.
GuardRoute(role) ==
    /\ Render \in {"children", "home"}
    /\ role # requiredRole
    /\ role = "none" \/ Render = "children"
    /\ requiredRole' = role
    /\ UNCHANGED <<guardRest, user, guardUser, guardRole, guardLoading, checkAuth, callbacks>>

\* getSession answers with an error.
CheckAuthSessionError ==
    /\ GuardMounted
    /\ checkAuth.pc = "getSession"
    /\ guardLoading' = FALSE
    /\ checkAuth' = [pc |-> "done", user |-> NoUser]
    /\ UNCHANGED <<guardRest, user, requiredRole, guardUser, guardRole, callbacks>>

\* getSession answers with the session, or with none.
CheckAuthGetSession ==
    /\ GuardMounted
    /\ checkAuth.pc = "getSession"
    /\ guardUser' = user
    /\ IF user # NoUser
       THEN /\ checkAuth' = [pc |-> "profile", user |-> user]
            /\ UNCHANGED guardLoading
       ELSE /\ checkAuth' = [pc |-> "done", user |-> NoUser]
            /\ guardLoading' = FALSE
    /\ UNCHANGED <<guardRest, user, requiredRole, guardRole, callbacks>>

\* The profile query of checkAuth answers: with the row, or with an error.
CheckAuthProfile(failed) ==
    /\ GuardMounted
    /\ checkAuth.pc = "profile"
    /\ guardRole' = IF failed THEN MetadataRole(checkAuth.user)
                    ELSE ProfileRole(checkAuth.user)
    /\ guardLoading' = FALSE
    /\ checkAuth' = [pc |-> "done", user |-> NoUser]
    /\ UNCHANGED <<guardRest, user, requiredRole, guardUser, callbacks>>

\* An await of checkAuth throws.
CheckAuthThrows ==
    /\ GuardMounted
    /\ checkAuth.pc \in {"getSession", "profile"}
    /\ guardLoading' = FALSE
    /\ checkAuth' = [pc |-> "done", user |-> NoUser]
    /\ UNCHANGED <<guardRest, user, requiredRole, guardUser, guardRole, callbacks>>

\* An auth event (sign-in, refresh, the initial session, sign-out) reaches
\* the subscription: the callback runs up to its await, or to its end.
AuthStateChange(u) ==
    /\ GuardMounted
    /\ user' = u
    /\ guardUser' = u
    /\ IF u # NoUser
       THEN /\ Len(callbacks) < MaxCallbacks
            /\ callbacks' = Append(callbacks, [user |-> u])
            /\ UNCHANGED <<guardRole, guardLoading>>
       ELSE /\ guardRole' = "null"
            /\ guardLoading' = FALSE
            /\ UNCHANGED callbacks
    /\ UNCHANGED <<guardRest, requiredRole, checkAuth>>

\* The profile query of a callback answers, in any order among them.
CallbackProfile(i, failed) ==
    /\ GuardMounted
    /\ i \in 1..Len(callbacks)
    /\ guardRole' = IF failed THEN MetadataRole(callbacks[i].user)
                    ELSE ProfileRole(callbacks[i].user)
    /\ guardLoading' = FALSE
    /\ callbacks' = RemoveAt(callbacks, i)
    /\ UNCHANGED <<guardRest, user, requiredRole, guardUser, checkAuth>>

\* The profile query of a callback throws.
CallbackThrows(i) ==
    /\ GuardMounted
    /\ i \in 1..Len(callbacks)
    /\ guardLoading' = FALSE
    /\ callbacks' = RemoveAt(callbacks, i)
    /\ UNCHANGED <<guardRest, user, requiredRole, guardUser, guardRole, checkAuth>>

(***************************************************************************)
(* Time, numbers and JavaScript objects, as the admin pages use them.      *)
(*                                                                         *)
(* A timestamp is a number of hours; a day has 24 of them and a month 30   *)
(* days.  created_at and check_in_time both default to now() at the        *)
(* insert, so a visit row carries one timestamp, created_at.  A quotient   *)
(* of two numbers is kept as the pair of its operands.                     *)
(***************************************************************************)
\* The values new Date() takes: noon of the third day of a month.
ClockValues == {1500}

\* startDate.setHours(0, 0, 0, 0)
StartOfDay(t) == t - (t % 24)

\* new Date(year, month, 1)
StartOfMonth(t) == t - (t % 720)

\* new Date(created_at).toLocaleDateString(): the calendar day.
toLocaleDateString(t) == t \div 24

\* new Date(created_at).getHours()
getHours(t) == t % 24

\* a / b for b # 0.
Ratio(a, b) == [num |-> a, den |-> b]

Zero == Ratio(0, 1)

\* The ratio r is the quotient a / b.
IsQuotient(r, a, b) == r.den # 0 /\ b # 0 /\ r.num * b = a * r.den

\* Property names every object literal inherits from Object.prototype (some
\* of them): obj[name] is a function or an object for these, hence truthy,
\* though obj has no such property of its own.
ObjectPrototypeKeys == {"constructor", "toString", "valueOf", "hasOwnProperty", "__proto__"}

NoDates == [startDate |-> <<>>, endDate |-> <<>>]

NoRun == [startDate |-> 0, endDate |-> 0, visits |-> <<>>]

\* useState<DashboardStats>({...})
InitialStats ==
    [todayRevenue |-> 0, todayVisits |-> 0, avgTicketSize |-> Zero,
     monthRevenue |-> 0, monthVisits |-> 0, bestService |-> "-",
     bestEmployee |-> "-", growthRate |-> Zero]

NoDash == [todayStart |-> 0, monthStart |-> 0, lastMonthStart |-> 0,
           lastMonthEnd |-> 0, todayVisits |-> <<>>, monthVisits |-> <<>>,
           lastMonthVisits |-> <<>>, serviceStats |-> <<>>]

(***************************************************************************)
(* What the admin pages' queries return.                                   *)
(***************************************************************************)
\* Policies "Employees can view their own visits" and "Admins can manage all
\* visits".
VisitVisible(v) == v.created_by = user \/ db_role = "admin"

\* Policy "Anyone can view active services": active, or the user is an admin.
ServiceVisible(serviceId) ==
    serviceId \in DOMAIN db_services
    /\ (db_services[serviceId].active \/ db_role = "admin")

\* .from("visits").gte("created_at", start).lte("created_at", end), in the
\* order of the table.
VisitsBetween(start, end) ==
    SelectSeq(visits, LAMBDA v : VisitVisible(v) /\ v.created_at >= start /\ v.created_at <= end)

\* .from("visits").gte("created_at", start)
VisitsSince(start) ==
    SelectSeq(visits, LAMBDA v : VisitVisible(v) /\ v.created_at >= start)

\* The line items of one visit, in an order the table fixes.
RECURSIVE ItemsOfVisit(_, _)
ItemsOfVisit(items, visitId) ==
    LET mine == {r \in items : r.visit_id = visitId}
    IN IF mine = {} THEN <<>>
       ELSE LET r == CHOOSE x \in mine : TRUE
            IN <<r>> \o ItemsOfVisit(items \ {r}, visitId)

\* service:services(name) and employee:profiles!...(full_name): the embedded
\* row as <<name>>, or <<>> for null when the policy hides the row.
Embed(r) ==
    [visit_id |-> r.visit_id,
     service_price |-> r.service_price,
     employee |-> IF r.employee_id \in DOMAIN profiles
                  THEN <<profiles[r.employee_id].full_name>>
                  ELSE <<>>,
     service |-> IF ServiceVisible(r.service_id)
                 THEN <<db_services[r.service_id].name>>
                 ELSE <<>>]

\* .from("visit_services").select(... visit:visits!inner(created_at) ...) over
\* the given visits: the line items of those visits, in the order of the tables.
RECURSIVE JoinedItems(_)
JoinedItems(vs) ==
    IF Len(vs) = 0 THEN <<>>
    ELSE LET its == ItemsOfVisit(visit_services, vs[1].id)
         IN [i \in 1..Len(its) |-> Embed(its[i])] \o JoinedItems(Tail(vs))

(***************************************************************************)
(* The Reports page: getDateRange and the aggregations of fetchReports.    *)
(***************************************************************************)
DateRanges == {"today", "week", "month"}

getDateRange(range, t) ==
    [startDate |-> CASE range = "today" -> StartOfDay(t)
                     [] range = "week" -> t - 7 * 24
                     [] OTHER -> t - 720,
     endDate |-> t]

\* vs.employee?.full_name || "Unknown"
employeeName(vs) ==
    IF vs.employee = <<>> \/ vs.employee[1] = "" THEN "Unknown"
    ELSE vs.employee[1]

\* vs.service?.name || "Unknown"
serviceName(vs) ==
    IF vs.service = <<>> \/ vs.service[1] = "" THEN "Unknown"
    ELSE vs.service[1]

\* The forEach that every grouped report runs over its rows, on an object
\* literal that starts empty:
\*     if (!obj[key]) obj[key] = { count: 0, sum: 0 };
\*     obj[key].count++;  obj[key].sum += amount;
\* The result is Object.entries(obj): the object's own properties in the order
\* of their creation.  For a key of Object.prototype the test finds the
\* inherited value, no property is created, and the two updates land on the
\* inherited value.  inherited is the set of such keys among the strings the
\* key expression can give.
Tally(keys, amounts, inherited) ==
    LET acc[i \in 0..Len(keys)] ==
          IF i = 0 THEN <<>>
          ELSE LET prev == acc[i - 1]
                   k == keys[i]
               IN IF \E j \in 1..Len(prev) : prev[j].key = k
                  THEN [j \in 1..Len(prev) |->
                          IF prev[j].key = k
                          THEN [key |-> k, count |-> prev[j].count + 1,
                                sum |-> prev[j].sum + amounts[i]]
                          ELSE prev[j]]
                  ELSE IF k \in inherited
                  THEN prev
                  ELSE Append(prev, [key |-> k, count |-> 1, sum |-> amounts[i]])
    IN acc[Len(keys)]

\* array.sort((a, b) => Val(b) - Val(a)): descending, equal values keep their order.
SortDesc(seq, Val(_)) ==
    LET ins[i \in 0..Len(seq)] ==
          IF i = 0 THEN <<>>
          ELSE LET prev == ins[i - 1]
                   x == seq[i]
                   before == {j \in 1..Len(prev) : Val(prev[j]) >= Val(x)}
                   n == Cardinality(before)
               IN SubSeq(prev, 1, n) \o <<x>> \o SubSeq(prev, n + 1, Len(prev))
    IN ins[Len(seq)]

\* No date string and no hour label is a property name of Object.prototype.
salesByDate(vs) ==
    Tally([i \in 1..Len(vs) |-> toLocaleDateString(vs[i].created_at)],
          [i \in 1..Len(vs) |-> vs[i].final_amount], {})

employeeStats(items) ==
    Tally([i \in 1..Len(items) |-> employeeName(items[i])],
          [i \in 1..Len(items) |-> items[i].service_price], ObjectPrototypeKeys)

serviceData(items) ==
    Tally([i \in 1..Len(items) |-> serviceName(items[i])],
          [i \in 1..Len(items) |-> items[i].service_price], ObjectPrototypeKeys)

\* hourCounts[hourLabel] = (hourCounts[hourLabel] || 0) + 1
hourCounts(vs) ==
    Tally([i \in 1..Len(vs) |-> getHours(vs[i].created_at)],
          [i \in 1..Len(vs) |-> 0], {})

\* visit.payment_method || "Unknown"
methodStats(vs) ==
    Tally([i \in 1..Len(vs) |->
             IF vs[i].payment_method = "" THEN "Unknown" ELSE vs[i].payment_method],
          [i \in 1..Len(vs) |-> vs[i].final_amount], ObjectPrototypeKeys)

\* customerFirstVisit: a Map from phone to the earliest created_at among the
\* rows, its entries in the order of first occurrence.
customerFirstVisit(allVisits) ==
    LET acc[i \in 0..Len(allVisits)] ==
          IF i = 0 THEN <<>>
          ELSE LET prev == acc[i - 1]
                   v == allVisits[i]
               IN IF ~\E j \in 1..Len(prev) : prev[j].phone = v.customer_phone
                  THEN Append(prev, [phone |-> v.customer_phone, firstVisit |-> v.created_at])
                  ELSE [j \in 1..Len(prev) |->
                          IF prev[j].phone = v.customer_phone /\ v.created_at < prev[j].firstVisit
                          THEN [prev[j] EXCEPT !.firstVisit = v.created_at]
                          ELSE prev[j]]
    IN acc[Len(allVisits)]

\* Mutant: with no customer the rate is 100.
retentionRateFullWhenEmpty(returningCustomers, totalCustomers) ==
    IF totalCustomers > 0 THEN Ratio(returningCustomers * 100, totalCustomers)
    ELSE Ratio(100, 1)

\* totalCustomers > 0 ? (returningCustomers / totalCustomers) * 100 : 0
retentionRate(returningCustomers, totalCustomers) ==
    IF totalCustomers > 0 THEN Ratio(returningCustomers * 100, totalCustomers)
    ELSE Zero

\* The retention block, from the rows of its query to the state it sets.
retention(allVisits, startDate) ==
    LET first == customerFirstVisit(allVisits)
        \* const isNewInPeriod = new Date(firstVisit) >= new Date(startDate)
        newCustomers == Cardinality({j \in 1..Len(first) : first[j].firstVisit >= startDate})
        returningCustomers == Cardinality({j \in 1..Len(first) : ~(first[j].firstVisit >= startDate)})
    IN [new_customers |-> newCustomers,
        returning_customers |-> returningCustomers,
        retention_rate |-> retentionRate(returningCustomers, newCustomers + returningCustomers)]

\* Mutant: the average of an entry is its total.
avgValueUndivided(total, count) == Ratio(total, 1)

\* avg_value: data.total / data.count
avgValue(total, count) == Ratio(total, count)

\* dailyTickets and the list made of it.
dailyTickets(vs) ==
    LET t == salesByDate(vs)
    IN [i \in 1..Len(t) |-> [date |-> t[i].key, avg_value |-> avgValue(t[i].sum, t[i].count)]]

\* The useState values of the Reports page.
FreshReports ==
    /\ dateRange' = "today"
    /\ dailySales' = <<>>
    /\ employeePerformance' = <<>>
    /\ servicePerformance' = <<>>
    /\ peakHours' = <<>>
    /\ paymentMethods' = <<>>
    /\ customerRetention' = "null"
    /\ avgTicketValues' = <<>>

otherPages == <<dashVars, customersVars, catalogVars>>
\* The visit form, and what no page other than those named with it touches.
visitPage == <<loading, formVars, customerName, lookupVars, pc, sub, outcome, lateVars>>

\* Opening /reports mounts the page; the effect on dateRange runs fetchReports,
\* which computes its window and sends the first query.
OpenReports ==
    /\ page = "home"
    /\ page' = "reports"
    /\ FreshReports
    /\ run' = getDateRange("today", now) @@ NoRun
    /\ reportPc' = "visits"
    /\ UNCHANGED <<dbVars, user, now, db_role, otherPages, visitPage>>

\* The range select: setDateRange, and the effect runs fetchReports again.
setDateRange(range) ==
    /\ page = "reports"
    /\ reportPc = "done"
    /\ range # dateRange
    /\ dateRange' = range
    /\ run' = getDateRange(range, now) @@ NoRun
    /\ reportPc' = "visits"
    /\ UNCHANGED <<dbVars, user, page, now, db_role, otherPages, visitPage,
                   dailySales, employeePerformance, servicePerformance, peakHours,
                   paymentMethods, customerRetention, avgTicketValues>>

\* The visits of the window have arrived: daily sales.
VisitsReturn ==
    /\ page = "reports"
    /\ reportPc = "visits"
    /\ LET data == VisitsBetween(run.startDate, run.endDate)
           byDate == salesByDate(data)
       IN /\ run' = [run EXCEPT !.visits = data]
          /\ dailySales' = [i \in 1..Len(byDate) |->
                              [date |-> byDate[i].key, visits |-> byDate[i].count,
                               revenue |-> byDate[i].sum]]
    /\ reportPc' = "visitServices"
    /\ UNCHANGED <<dbVars, user, page, now, db_role, otherPages, visitPage,
                   dateRange, employeePerformance, servicePerformance, peakHours,
                   paymentMethods, customerRetention, avgTicketValues>>

\* The line items with their employees have arrived: employee performance.
VisitServicesReturn ==
    /\ page = "reports"
    /\ reportPc = "visitServices"
    /\ LET st == employeeStats(JoinedItems(VisitsBetween(run.startDate, run.endDate)))
       IN employeePerformance' =
            [i \in 1..Len(st) |-> [employee_name |-> st[i].key,
                                   services_count |-> st[i].count,
                                   total_revenue |-> st[i].sum]]
    /\ reportPc' = "serviceStats"
    /\ UNCHANGED <<dbVars, user, page, now, db_role, otherPages, visitPage,
                   dateRange, run, dailySales, servicePerformance, peakHours,
                   paymentMethods, customerRetention, avgTicketValues>>

\* The line items with their services have arrived: service performance, and
\* the peak hours of the visits fetched first.
ServiceStatsReturn ==
    /\ page = "reports"
    /\ reportPc = "serviceStats"
    /\ LET st == serviceData(JoinedItems(VisitsBetween(run.startDate, run.endDate)))
           rows == [i \in 1..Len(st) |-> [service_name |-> st[i].key,
                                          times_used |-> st[i].count,
                                          total_revenue |-> st[i].sum]]
       IN servicePerformance' = SortDesc(rows, LAMBDA r : r.times_used)
    /\ LET hc == hourCounts(run.visits)
           rows == [i \in 1..Len(hc) |-> [hour |-> hc[i].key, visits |-> hc[i].count]]
       IN peakHours' = SortDesc(rows, LAMBDA r : 0 - r.hour)
    /\ reportPc' = "paymentData"
    /\ UNCHANGED <<dbVars, user, page, now, db_role, otherPages, visitPage,
                   dateRange, run, dailySales, employeePerformance,
                   paymentMethods, customerRetention, avgTicketValues>>

\* The payment data have arrived: the breakdown by method.
PaymentDataReturn ==
    /\ page = "reports"
    /\ reportPc = "paymentData"
    /\ LET st == methodStats(VisitsBetween(run.startDate, run.endDate))
           rows == [i \in 1..Len(st) |-> [method |-> st[i].key, count |-> st[i].count,
                                          total_amount |-> st[i].sum]]
       IN paymentMethods' = SortDesc(rows, LAMBDA r : r.count)
    /\ reportPc' = "allVisits"
    /\ UNCHANGED <<dbVars, user, page, now, db_role, otherPages, visitPage,
                   dateRange, run, dailySales, employeePerformance, servicePerformance,
                   peakHours, customerRetention, avgTicketValues>>

\* .not("customer_phone", "is", null).gte("created_at", startDate).lte(...)
\* No row has a null phone: the visit form stores the text of its phone field.
RetentionQuery(start, end) == VisitsBetween(start, end)

\* The retention rows have arrived: retention, and the average tickets of the
\* visits fetched first.  fetchReports ends.
AllVisitsReturn ==
    /\ page = "reports"
    /\ reportPc = "allVisits"
    /\ customerRetention' = retention(RetentionQuery(run.startDate, run.endDate), run.startDate)
    /\ avgTicketValues' = dailyTickets(run.visits)
    /\ reportPc' = "done"
    /\ UNCHANGED <<dbVars, user, page, now, db_role, otherPages, visitPage,
                   dateRange, run, dailySales, employeePerformance, servicePerformance,
                   peakHours, paymentMethods>>

MaxStale == 1           \* runs of fetchReports overtaken by a change of the range

\* The range select is changed while fetchReports is awaiting a query: the
\* effect starts another run, and the run in flight goes on.
setDateRangeInFlight(range) ==
    /\ page = "reports"
    /\ reportPc \notin {"idle", "done"}
    /\ Len(staleRuns) < MaxStale
    /\ range # dateRange
    /\ dateRange' = range
    /\ staleRuns' = Append(staleRuns, [pc |-> reportPc, run |-> run])
    /\ run' = getDateRange(range, now) @@ NoRun
    /\ reportPc' = "visits"
    /\ UNCHANGED <<dbVars, user, page, now, db_role, otherPages, detached, guardVars,
                   loading, formVars, customerName, lookupVars, pc, sub, outcome,
                   dailySales, employeePerformance, servicePerformance, peakHours,
                   paymentMethods, customerRetention, avgTicketValues>>

\* Mutant: an overtaken run sets no state.
StaleReturnDropped(i) ==
    /\ page = "reports"
    /\ i \in 1..Len(staleRuns)
    /\ staleRuns' =
         IF staleRuns[i].pc = "allVisits" THEN RemoveAt(staleRuns, i)
         ELSE [staleRuns EXCEPT ![i].pc =
                 CASE @ = "visits" -> "visitServices"
                   [] @ = "visitServices" -> "serviceStats"
                   [] @ = "serviceStats" -> "paymentData"
                   [] OTHER -> "allVisits"]
    /\ UNCHANGED <<dbVars, user, page, now, db_role, otherPages, detached, guardVars,
                   loading, formVars, customerName, lookupVars, pc, sub, outcome,
                   reportVars>>

\* A query of an overtaken run is answered: the run sets the state its own
\* window gives, as the steps of fetchReports above do, and goes on.
StaleReturn(i) ==
    /\ page = "reports"
    /\ i \in 1..Len(staleRuns)
    /\ LET r == staleRuns[i].run
           window == VisitsBetween(r.startDate, r.endDate)
       IN \/ /\ staleRuns[i].pc = "visits"
             /\ LET byDate == salesByDate(window)
                IN dailySales' = [k \in 1..Len(byDate) |->
                                    [date |-> byDate[k].key, visits |-> byDate[k].count,
                                     revenue |-> byDate[k].sum]]
             /\ staleRuns' = [staleRuns EXCEPT ![i] =
                                [pc |-> "visitServices", run |-> [r EXCEPT !.visits = window]]]
             /\ UNCHANGED <<employeePerformance, servicePerformance, peakHours,
                            paymentMethods, customerRetention, avgTicketValues>>
          \/ /\ staleRuns[i].pc = "visitServices"
             /\ LET st == employeeStats(JoinedItems(window))
                IN employeePerformance' =
                     [k \in 1..Len(st) |-> [employee_name |-> st[k].key,
                                            services_count |-> st[k].count,
                                            total_revenue |-> st[k].sum]]
             /\ staleRuns' = [staleRuns EXCEPT ![i].pc = "serviceStats"]
             /\ UNCHANGED <<dailySales, servicePerformance, peakHours,
                            paymentMethods, customerRetention, avgTicketValues>>
          \/ /\ staleRuns[i].pc = "serviceStats"
             /\ LET st == serviceData(JoinedItems(window))
                    rows == [k \in 1..Len(st) |-> [service_name |-> st[k].key,
                                                   times_used |-> st[k].count,
                                                   total_revenue |-> st[k].sum]]
                IN servicePerformance' = SortDesc(rows, LAMBDA x : x.times_used)
             /\ LET hc == hourCounts(r.visits)
                    rows == [k \in 1..Len(hc) |-> [hour |-> hc[k].key, visits |-> hc[k].count]]
                IN peakHours' = SortDesc(rows, LAMBDA x : 0 - x.hour)
             /\ staleRuns' = [staleRuns EXCEPT ![i].pc = "paymentData"]
             /\ UNCHANGED <<dailySales, employeePerformance,
                            paymentMethods, customerRetention, avgTicketValues>>
          \/ /\ staleRuns[i].pc = "paymentData"
             /\ LET st == methodStats(window)
                    rows == [k \in 1..Len(st) |-> [method |-> st[k].key, count |-> st[k].count,
                                                   total_amount |-> st[k].sum]]
                IN paymentMethods' = SortDesc(rows, LAMBDA x : x.count)
             /\ staleRuns' = [staleRuns EXCEPT ![i].pc = "allVisits"]
             /\ UNCHANGED <<dailySales, employeePerformance, servicePerformance,
                            peakHours, customerRetention, avgTicketValues>>
          \/ /\ staleRuns[i].pc = "allVisits"
             /\ customerRetention' =
                  retention(RetentionQuery(r.startDate, r.endDate), r.startDate)
             /\ avgTicketValues' = dailyTickets(r.visits)
             /\ staleRuns' = RemoveAt(staleRuns, i)
             /\ UNCHANGED <<dailySales, employeePerformance, servicePerformance,
                            peakHours, paymentMethods>>
    /\ UNCHANGED <<dbVars, user, page, now, db_role, otherPages, detached, guardVars,
                   loading, formVars, customerName, lookupVars, pc, sub, outcome,
                   dateRange, reportPc, run>>

\* Navigation away unmounts the page; what a run in flight sets later is lost.
LeaveReports ==
    /\ page = "reports"
    /\ page' = "home"
    /\ FreshReports
    /\ run' = NoRun
    /\ reportPc' = "idle"
    /\ UNCHANGED <<dbVars, user, now, db_role, otherPages, visitPage>>

(***************************************************************************)
(* The overview dashboard: fetchDashboardStats, one action per await.      *)
(***************************************************************************)
\* data?.reduce((sum, v) => sum + Number(v.final_amount), 0) || 0
Revenue(amounts) ==
    LET acc[i \in 0..Len(amounts)] == IF i = 0 THEN 0 ELSE acc[i - 1] + amounts[i]
    IN acc[Len(amounts)]

\* lastMonthRev > 0 ? ((monthRev - lastMonthRev) / lastMonthRev) * 100 : 0
growth(monthRev, lastMonthRev) ==
    IF lastMonthRev > 0 THEN Ratio((monthRev - lastMonthRev) * 100, lastMonthRev) ELSE Zero

\* todayVisits?.length ? todayRev / todayVisits.length : 0
avgTicketSize(todayRev, n) == IF n # 0 THEN Ratio(todayRev, n) ELSE Zero

\* totals[name] = (totals[name] || 0) + Number(vs.service_price), on an object
\* literal that starts empty.  For a key of Object.prototype the inherited
\* function is added to the price, which makes a string (isNumber is false
\* then); what is added to a string later is a string again.
Totals(keys, amounts) ==
    LET acc[i \in 0..Len(keys)] ==
          IF i = 0 THEN <<>>
          ELSE LET prev == acc[i - 1]
                   k == keys[i]
               IN IF \E j \in 1..Len(prev) : prev[j].key = k
                  THEN [j \in 1..Len(prev) |->
                          IF prev[j].key # k \/ ~prev[j].isNumber THEN prev[j]
                          ELSE [prev[j] EXCEPT !.total = @ + amounts[i]]]
                  ELSE IF k \in ObjectPrototypeKeys
                  THEN Append(prev, [key |-> k, total |-> 0, isNumber |-> FALSE])
                  ELSE Append(prev, [key |-> k, total |-> amounts[i], isNumber |-> TRUE])
    IN acc[Len(keys)]

\* Object.entries(totals).sort(([, a], [, b]) => b - a)[0]?.[0] || "-": the
\* keys the expression can give.  The sort is stable, so the first entry with
\* the largest total comes first.  With a total that is no number the
\* comparator gives NaN, which counts as 0: when the numbers among the totals
\* are all equal every comparison is 0 and the first entry stays first,
\* otherwise the comparator is inconsistent and the order is the engine's
\* choice.
Best(totals) ==
    IF Len(totals) = 0 THEN {"-"}
    ELSE IF \A j \in 1..Len(totals) : totals[j].isNumber
    THEN {SortDesc(totals, LAMBDA e : e.total)[1].key}
    ELSE IF \A i, j \in 1..Len(totals) :
               (totals[i].isNumber /\ totals[j].isNumber) => totals[i].total = totals[j].total
    THEN {totals[1].key}
    ELSE {totals[j].key : j \in 1..Len(totals)}

Amounts(vs) == [i \in 1..Len(vs) |-> vs[i].final_amount]

\* Mounting the dashboard runs fetchDashboardStats: the four dates, and the
\* first query.
OpenOverview ==
    /\ page = "home"
    /\ page' = "overview"
    /\ stats' = InitialStats
    /\ dash' = [NoDash EXCEPT !.todayStart = StartOfDay(now),
                              !.monthStart = StartOfMonth(now),
                              !.lastMonthStart = StartOfMonth(now) - 720,
                              !.lastMonthEnd = StartOfMonth(now) - 24]
    /\ dashPc' = "todayVisits"
    /\ UNCHANGED <<dbVars, user, now, db_role, reportVars, customersVars, catalogVars, visitPage>>

TodayVisitsReturn ==
    /\ page = "overview"
    /\ dashPc = "todayVisits"
    /\ dash' = [dash EXCEPT !.todayVisits = Amounts(VisitsSince(dash.todayStart))]
    /\ dashPc' = "monthVisits"
    /\ UNCHANGED <<dbVars, user, page, now, db_role, reportVars, customersVars,
                   catalogVars, visitPage, stats>>

MonthVisitsReturn ==
    /\ page = "overview"
    /\ dashPc = "monthVisits"
    /\ dash' = [dash EXCEPT !.monthVisits = Amounts(VisitsSince(dash.monthStart))]
    /\ dashPc' = "lastMonthVisits"
    /\ UNCHANGED <<dbVars, user, page, now, db_role, reportVars, customersVars,
                   catalogVars, visitPage, stats>>

LastMonthVisitsReturn ==
    /\ page = "overview"
    /\ dashPc = "lastMonthVisits"
    /\ dash' = [dash EXCEPT !.lastMonthVisits =
                               Amounts(VisitsBetween(dash.lastMonthStart, dash.lastMonthEnd))]
    /\ dashPc' = "serviceStats"
    /\ UNCHANGED <<dbVars, user, page, now, db_role, reportVars, customersVars,
                   catalogVars, visitPage, stats>>

DashServiceStatsReturn ==
    /\ page = "overview"
    /\ dashPc = "serviceStats"
    /\ dash' = [dash EXCEPT !.serviceStats = JoinedItems(VisitsSince(dash.todayStart))]
    /\ dashPc' = "employeeStats"
    /\ UNCHANGED <<dbVars, user, page, now, db_role, reportVars, customersVars,
                   catalogVars, visitPage, stats>>

\* The last query has answered: the figures are computed and set at once.
DashEmployeeStatsReturn ==
    /\ page = "overview"
    /\ dashPc = "employeeStats"
    /\ LET employeeRows == JoinedItems(VisitsSince(dash.todayStart))
           todayRev == Revenue(dash.todayVisits)
           monthRev == Revenue(dash.monthVisits)
           lastMonthRev == Revenue(dash.lastMonthVisits)
           serviceTotals ==
              Totals([i \in 1..Len(dash.serviceStats) |-> serviceName(dash.serviceStats[i])],
                     [i \in 1..Len(dash.serviceStats) |-> dash.serviceStats[i].service_price])
           employeeTotals ==
              Totals([i \in 1..Len(employeeRows) |-> employeeName(employeeRows[i])],
                     [i \in 1..Len(employeeRows) |-> employeeRows[i].service_price])
       IN \E bestSvc \in Best(serviceTotals), bestEmp \in Best(employeeTotals) :
            stats' = [todayRevenue |-> todayRev,
                      todayVisits |-> Len(dash.todayVisits),
                      avgTicketSize |-> avgTicketSize(todayRev, Len(dash.todayVisits)),
                      monthRevenue |-> monthRev,
                      monthVisits |-> Len(dash.monthVisits),
                      bestService |-> bestSvc,
                      bestEmployee |-> bestEmp,
                      growthRate |-> growth(monthRev, lastMonthRev)]
    /\ dashPc' = "done"
    /\ UNCHANGED <<dbVars, user, page, now, db_role, reportVars, customersVars,
                   catalogVars, visitPage, dash>>

LeaveOverview ==
    /\ page = "overview"
    /\ page' = "home"
    /\ stats' = InitialStats
    /\ dash' = NoDash
    /\ dashPc' = "idle"
    /\ UNCHANGED <<dbVars, user, now, db_role, reportVars, customersVars, catalogVars, visitPage>>

(***************************************************************************)
(* The Customers page: fetchCustomers.                                     *)
(***************************************************************************)
\* What a date picker is set to.
PickerDays == {<<58>>, <<62>>}

\* The query of fetchCustomers: a phone that is not null (as every row's is),
\* and the two optional bounds, the upper one at the end of its day
\* (setHours(23, 59, 59, 999)).
CustomersQuery(dates) ==
    SelectSeq(visits, LAMBDA v :
        /\ VisitVisible(v)
        /\ dates.startDate # <<>> => v.created_at >= dates.startDate[1] * 24
        /\ dates.endDate # <<>> => v.created_at < (dates.endDate[1] + 1) * 24)

\* customerMap: one entry per phone in the order of first occurrence, with the
\* name of the first row, the number of rows, their final amounts added up
\* and the latest timestamp.
customerMap(data) ==
    LET acc[i \in 0..Len(data)] ==
          IF i = 0 THEN <<>>
          ELSE LET v == data[i]
                   had == \E j \in 1..Len(acc[i - 1]) : acc[i - 1][j].customer_phone = v.customer_phone
                   prev == IF had THEN acc[i - 1]
                           ELSE Append(acc[i - 1],
                                  [customer_name |-> IF v.customer_name = "" THEN "Unknown"
                                                     ELSE v.customer_name,
                                   customer_phone |-> v.customer_phone,
                                   total_visits |-> 0,
                                   total_spending |-> 0,
                                   last_visit |-> v.created_at])
               IN [j \in 1..Len(prev) |->
                     IF prev[j].customer_phone # v.customer_phone THEN prev[j]
                     ELSE [prev[j] EXCEPT
                             !.total_visits = @ + 1,
                             !.total_spending = @ + v.final_amount,
                             !.last_visit = IF v.created_at > @ THEN v.created_at ELSE @]]
    IN acc[Len(data)]

\* Mounting the page runs fetchCustomers with both dates unset.
OpenCustomers ==
    /\ page = "home"
    /\ page' = "customers"
    /\ customers' = <<>>
    /\ customerDates' = NoDates
    /\ customersPc' = "query"
    /\ UNCHANGED <<dbVars, user, now, db_role, reportVars, dashVars, catalogVars, visitPage>>

\* A date picker is set: the effect on [startDate, endDate] fetches again.
setStartDate(day) ==
    /\ page = "customers"
    /\ customersPc = "idle"
    /\ day # customerDates.startDate
    /\ customerDates' = [customerDates EXCEPT !.startDate = day]
    /\ customersPc' = "query"
    /\ UNCHANGED <<dbVars, user, page, now, db_role, reportVars, dashVars, catalogVars,
                   visitPage, customers>>

setEndDate(day) ==
    /\ page = "customers"
    /\ customersPc = "idle"
    /\ day # customerDates.endDate
    /\ customerDates' = [customerDates EXCEPT !.endDate = day]
    /\ customersPc' = "query"
    /\ UNCHANGED <<dbVars, user, page, now, db_role, reportVars, dashVars, catalogVars,
                   visitPage, customers>>

\* The rows have arrived: aggregate, sort by spending, set the list.
CustomersReturn ==
    /\ page = "customers"
    /\ customersPc = "query"
    /\ customers' = SortDesc(customerMap(CustomersQuery(customerDates)),
                             LAMBDA c : c.total_spending)
    /\ customersPc' = "idle"
    /\ UNCHANGED <<dbVars, user, page, now, db_role, reportVars, dashVars, catalogVars,
                   visitPage, customerDates>>

LeaveCustomers ==
    /\ page = "customers"
    /\ page' = "home"
    /\ customers' = <<>>
    /\ customerDates' = NoDates
    /\ customersPc' = "idle"
    /\ UNCHANGED <<dbVars, user, now, db_role, reportVars, dashVars, catalogVars, visitPage>>

(***************************************************************************)
(* Number inputs.  The text of an input is a sequence of characters; the   *)
(* browser validates it as a number, the handler parses it again with      *)
(* parseFloat or parseInt.                                                 *)
(***************************************************************************)
DigitOf == [c \in {"0", "1", "2", "3", "4", "5", "6", "7", "8", "9"} |->
              CASE c = "0" -> 0 [] c = "1" -> 1 [] c = "2" -> 2 [] c = "3" -> 3
                [] c = "4" -> 4 [] c = "5" -> 5 [] c = "6" -> 6 [] c = "7" -> 7
                [] c = "8" -> 8 [] OTHER -> 9]

IsDigits(txt) == \A i \in 1..Len(txt) : txt[i] \in DOMAIN DigitOf

\* The number a sequence of digits writes (0 for none).
DigitsValue(txt) ==
    LET acc[i \in 0..Len(txt)] == IF i = 0 THEN 0 ELSE acc[i - 1] * 10 + DigitOf[txt[i]]
    IN acc[Len(txt)]

RECURSIVE Pow10(_)
Pow10(n) == IF n <= 0 THEN 1 ELSE 10 * Pow10(n - 1)

\* The position of the first occurrence of c in txt, or Len(txt) + 1.
IndexOf(txt, c) ==
    IF \E i \in 1..Len(txt) : txt[i] = c
    THEN CHOOSE i \in 1..Len(txt) : txt[i] = c /\ \A j \in 1..(i - 1) : txt[j] # c
    ELSE Len(txt) + 1

\* The parts of a number text: sign, integer digits, fraction digits (after
\* "."), exponent sign and digits (after "e").
NumberParts(txt) ==
    LET neg == Len(txt) > 0 /\ txt[1] = "-"
        body == IF neg THEN Tail(txt) ELSE txt
        e == IndexOf(body, "e")
        mant == SubSeq(body, 1, e - 1)
        expo == SubSeq(body, e + 1, Len(body))
        dot == IndexOf(mant, ".")
        eneg == Len(expo) > 0 /\ expo[1] = "-"
    IN [neg |-> neg,
        int |-> SubSeq(mant, 1, dot - 1),
        hasDot |-> dot <= Len(mant),
        frac |-> SubSeq(mant, dot + 1, Len(mant)),
        hasExp |-> e <= Len(body),
        eneg |-> eneg,
        exp |-> IF eneg THEN Tail(expo) ELSE expo]

\* The text is a valid floating-point number of HTML: digits with an optional
\* fraction, or a fraction alone, and an optional exponent.  An input of type
\* number holds such a text or the empty one.
IsValidNumber(txt) ==
    LET p == NumberParts(txt)
    IN /\ IsDigits(p.int) /\ IsDigits(p.frac) /\ IsDigits(p.exp)
       /\ IF p.hasDot THEN Len(p.frac) > 0 ELSE Len(p.int) > 0
       /\ p.hasExp => Len(p.exp) > 0

\* A valid text's number times 10^places, where that is an integer: as
\* <<n>>, or <<>> where it is not an integer.
Scaled(txt, places) ==
    LET p == NumberParts(txt)
        m == DigitsValue(p.int \o p.frac)
        k == (IF p.eneg THEN 0 - DigitsValue(p.exp) ELSE DigitsValue(p.exp))
               - Len(p.frac) + places
        abs == IF k >= 0 THEN <<m * Pow10(k)>>
               ELSE IF m % Pow10(0 - k) = 0 THEN <<m \div Pow10(0 - k)>>
               ELSE <<>>
    IN IF abs = <<>> THEN <<>> ELSE IF p.neg THEN <<0 - abs[1]>> ELSE abs

\* The constraint validation of <input type="number" required min step>, with
\* min and step given in units of 10^-places: the text is not empty, is a
\* number, is not below min and is min plus a multiple of step.
InputValid(txt, min, step, places) ==
    /\ Len(txt) > 0
    /\ IsValidNumber(txt)
    /\ Scaled(txt, places) # <<>>
    /\ Scaled(txt, places)[1] >= min
    /\ (Scaled(txt, places)[1] - min) % step = 0

\* parseFloat of a text that passed the validation with step 0.01, in cents.
parseFloat(txt) == Scaled(txt, 2)[1]

\* parseInt: an optional sign and the digits that follow it, up to the first
\* character that is no digit; <<>> (NaN) when there is no digit.
parseInt(txt) ==
    LET neg == Len(txt) > 0 /\ txt[1] = "-"
        body == IF neg THEN Tail(txt) ELSE txt
        n == IF IsDigits(body) THEN Len(body)
             ELSE (CHOOSE i \in 1..Len(body) :
                      body[i] \notin DOMAIN DigitOf /\ IsDigits(SubSeq(body, 1, i - 1))) - 1
    IN IF n = 0 THEN <<>>
       ELSE IF neg THEN <<0 - DigitsValue(SubSeq(body, 1, n))>>
       ELSE <<DigitsValue(SubSeq(body, 1, n))>>

(***************************************************************************)
(* The Services page.                                                      *)
(***************************************************************************)
\* What is typed into the service form.
ServiceNameInputs == {"", "Gel"}
PriceFields == {<<>>, <<"2", "5">>, <<"-", "1">>}
\* The duration field: below the minimum, and two values the browser accepts
\* as the number 5.
DurationFields == {<<"4">>, <<"0", ".", "5", "e", "1">>, <<".", "5", "e", "1">>}

FreshServices ==
    /\ servicesList' = EmptyFn
    /\ editingService' = "null"
    /\ dialogOpen' = FALSE

nonCatalogPages == <<reportVars, dashVars, customersVars>>
employeesPage == <<employeesList, employeesPc>>
servicesPage == <<servicesList, editingService, dialogOpen, servicesPc>>

\* Opening /services mounts the page; the effect runs fetchServices.
OpenServices ==
    /\ page = "home"
    /\ page' = "services"
    /\ FreshServices
    /\ servicesPc' = "fetch"
    /\ UNCHANGED <<dbVars, user, now, db_role, nonCatalogPages, employeesPage,
                   adminEvent, visitPage>>

\* fetchServices, when its select answers: the rows the policy shows.
Services_fetchServices ==
    /\ page = "services"
    /\ servicesPc = "fetch"
    /\ servicesList' = [s \in {x \in DOMAIN db_services : ServiceVisible(x)} |-> db_services[s]]
    /\ servicesPc' = "idle"
    /\ UNCHANGED <<dbVars, user, page, now, db_role, nonCatalogPages, employeesPage,
                   editingService, dialogOpen, adminEvent, visitPage>>

\* The "Add Service" button.
OpenAddDialog ==
    /\ page = "services"
    /\ ~dialogOpen
    /\ editingService' = "null"
    /\ dialogOpen' = TRUE
    /\ UNCHANGED <<dbVars, user, page, now, db_role, nonCatalogPages, employeesPage,
                   servicesList, servicesPc, adminEvent, visitPage>>

\* The edit button of a row of the list.
OpenEditDialog(service) ==
    /\ page = "services"
    /\ ~dialogOpen
    /\ service \in DOMAIN servicesList
    /\ editingService' = service
    /\ dialogOpen' = TRUE
    /\ UNCHANGED <<dbVars, user, page, now, db_role, nonCatalogPages, employeesPage,
                   servicesList, servicesPc, adminEvent, visitPage>>

\* The dialog is dismissed: onOpenChange(false).
CloseDialog ==
    /\ page = "services"
    /\ dialogOpen
    /\ dialogOpen' = FALSE
    /\ UNCHANGED <<dbVars, user, page, now, db_role, nonCatalogPages, employeesPage,
                   servicesList, editingService, servicesPc, adminEvent, visitPage>>

\* Mutant: an edit sends the flag the service has.
ServiceFormDataKeepsActive(name, priceField, durationField) ==
    [name |-> name,
     price |-> parseFloat(priceField),
     duration_minutes |-> parseInt(durationField),
     active |-> IF editingService \in DOMAIN db_services
                THEN db_services[editingService].active
                ELSE TRUE]

\* const serviceData = {...}: the row the form submits.
ServiceFormData(name, priceField, durationField) ==
    [name |-> name,
     price |-> parseFloat(priceField),
     duration_minutes |-> parseInt(durationField),
     active |-> TRUE]

\* The row as the table stores it (duration_minutes INTEGER NOT NULL).
StoredService(data) == [data EXCEPT !.duration_minutes = data.duration_minutes[1]]

\* Mutant: an update of a service reprices the line items that reference it.
ServiceUpdateRepricing(id, data) ==
    /\ db_services' = [db_services EXCEPT ![id] = StoredService(data)]
    /\ visit_services' = {[r EXCEPT !.service_price =
                              IF r.service_id = id THEN data.price ELSE @] : r \in visit_services}
    /\ UNCHANGED <<profiles, visits>>

\* .from("services").update(serviceData).eq("id", id)
ServiceUpdate(id, data) ==
    /\ db_services' = [db_services EXCEPT ![id] = StoredService(data)]
    /\ UNCHANGED <<profiles, visits, visit_services>>

\* .from("services").insert(serviceData); the id is the table's default.
ServiceInsert(data) ==
    /\ ServiceIds \ DOMAIN db_services # {}
    /\ LET id == CHOOSE x \in ServiceIds \ DOMAIN db_services : TRUE
       IN db_services' = [x \in DOMAIN db_services \cup {id} |->
                            IF x = id THEN StoredService(data) ELSE db_services[x]]
    /\ UNCHANGED <<profiles, visits, visit_services>>

\* A submit of the service form that the browser's validation stops: the
\* name is required, the price is a number >= 0 in steps of 0.01, the
\* duration a number >= 5 in steps of 1.
ServiceFormValid(name, priceField, durationField) ==
    /\ name # ""
    /\ InputValid(priceField, 0, 1, 2)
    /\ InputValid(durationField, 5, 1, 0)

\* handleSubmit of the service form, with its request.  A duration that
\* parses to NaN is sent as null, which the column refuses.
Services_handleSubmit(name, priceField, durationField) ==
    /\ page = "services"
    /\ dialogOpen
    /\ ServiceFormValid(name, priceField, durationField)
    /\ LET data == ServiceFormData(name, priceField, durationField)
       IN IF data.duration_minutes = <<>>
          THEN /\ adminEvent' = "error"
               /\ UNCHANGED <<dbVars, editingService, dialogOpen, servicesPc>>
          ELSE IF editingService # "null"
          THEN /\ ServiceUpdate(editingService, data)
               /\ adminEvent' = IF db_services[editingService].active
                                THEN "none" ELSE "reactivate"
               /\ dialogOpen' = FALSE
               /\ editingService' = "null"
               /\ servicesPc' = "fetch"
          ELSE /\ ServiceInsert(data)
               /\ adminEvent' = "none"
               /\ dialogOpen' = FALSE
               /\ servicesPc' = "fetch"
               /\ UNCHANGED editingService
    /\ UNCHANGED <<user, page, now, db_role, nonCatalogPages, employeesPage,
                   servicesList, visitPage>>

\* Mutant: deactivating removes the row.
SetActiveOrDelete(tbl, id, value) ==
    IF value THEN [tbl EXCEPT ![id].active = value]
    ELSE [x \in DOMAIN tbl \ {id} |-> tbl[x]]

\* .update({ active: value }).eq("id", id)
SetActive(tbl, id, value) == [tbl EXCEPT ![id].active = value]

\* Mutant: the flag written is the negation of the stored one.
toggleServiceStatusOfStored(service) ==
    /\ page = "services"
    /\ ~dialogOpen
    /\ service \in DOMAIN servicesList
    /\ db_services' = SetActive(db_services, service, ~db_services[service].active)
    /\ adminEvent' = "none"
    /\ servicesPc' = "fetch"
    /\ UNCHANGED <<profiles, visits, visit_services, user, page, now, db_role,
                   nonCatalogPages, employeesPage, servicesList, editingService,
                   dialogOpen, visitPage>>

\* toggleServiceStatus of a row of the list, with its request: the flag
\* written is the negation of the list's copy.
toggleServiceStatus(service) ==
    /\ page = "services"
    /\ ~dialogOpen
    /\ service \in DOMAIN servicesList
    /\ db_services' = SetActive(db_services, service, ~servicesList[service].active)
    /\ adminEvent' = IF db_services[service].active = servicesList[service].active
                     THEN "none" ELSE "rewrite"
    /\ servicesPc' = "fetch"
    /\ UNCHANGED <<profiles, visits, visit_services, user, page, now, db_role,
                   nonCatalogPages, employeesPage, servicesList, editingService,
                   dialogOpen, visitPage>>

LeaveServices ==
    /\ page = "services"
    /\ page' = "home"
    /\ FreshServices
    /\ servicesPc' = "idle"
    /\ UNCHANGED <<dbVars, user, now, db_role, nonCatalogPages, employeesPage,
                   adminEvent, visitPage>>

(***************************************************************************)
(* The Employees page.                                                     *)
(***************************************************************************)
EmployeeNameInputs == {"Ann"}

OpenEmployees ==
    /\ page = "home"
    /\ page' = "employees"
    /\ employeesList' = EmptyFn
    /\ employeesPc' = "fetch"
    /\ UNCHANGED <<dbVars, user, now, db_role, nonCatalogPages, servicesPage,
                   adminEvent, visitPage>>

Employees_fetchEmployees ==
    /\ page = "employees"
    /\ employeesPc = "fetch"
    /\ employeesList' = profiles
    /\ employeesPc' = "idle"
    /\ UNCHANGED <<dbVars, user, page, now, db_role, nonCatalogPages, servicesPage,
                   adminEvent, visitPage>>

\* handleSubmit of the edit dialog of a row of the list, with its request.
\* (There is no insert: without editingEmployee the handler does nothing.)
Employees_handleSubmit(employee, name) ==
    /\ page = "employees"
    /\ employee \in DOMAIN employeesList
    /\ name # ""
    /\ profiles' = [profiles EXCEPT ![employee].full_name = name]
    /\ adminEvent' = "none"
    /\ employeesPc' = "fetch"
    /\ UNCHANGED <<db_services, visits, visit_services, user, page, now, db_role,
                   nonCatalogPages, servicesPage, employeesList, visitPage>>

\* toggleEmployeeStatus of a row of the list, with its request.
toggleEmployeeStatus(employee) ==
    /\ page = "employees"
    /\ employee \in DOMAIN employeesList
    /\ profiles' = SetActive(profiles, employee, ~employeesList[employee].active)
    /\ adminEvent' = "none"
    /\ employeesPc' = "fetch"
    /\ UNCHANGED <<db_services, visits, visit_services, user, page, now, db_role,
                   nonCatalogPages, servicesPage, employeesList, visitPage>>

LeaveEmployees ==
    /\ page = "employees"
    /\ page' = "home"
    /\ employeesList' = EmptyFn
    /\ employeesPc' = "idle"
    /\ UNCHANGED <<dbVars, user, now, db_role, nonCatalogPages, servicesPage,
                   adminEvent, visitPage>>

(***************************************************************************)
(* SpecVisit: one visit form against the row store.                        *)
(***************************************************************************)
\* The services and the staff on record when a scenario starts.
SeedServices ==
    [s \in ServiceIds |->
        CASE s = "A" -> [name |-> "Haircut", price |-> 2000,
                         duration_minutes |-> 30, active |-> TRUE]
          [] s = "B" -> [name |-> "Color", price |-> 1550,
                         duration_minutes |-> 45, active |-> TRUE]
          [] OTHER -> [name |-> "Spa", price |-> 1000,
                       duration_minutes |-> 60, active |-> FALSE]]

SeedProfiles ==
    [e \in EmployeeIds |->
        [full_name |-> IF e = "e1" THEN "Ann" ELSE "Bob", active |-> (e = "e1")]]

InitTables ==
    /\ db_services = SeedServices
    /\ profiles = SeedProfiles
    /\ visit_services = {}

\* No admin page is mounted: every state of theirs has its useState value.
\* The route guard as it is when its checks have run for an admin.
InitGuardIdle ==
    /\ requiredRole = "none"
    /\ guardUser = "u1"
    /\ guardRole = "admin"
    /\ guardLoading = FALSE
    /\ checkAuth = [pc |-> "done", user |-> NoUser]
    /\ callbacks = <<>>

InitPages ==
    /\ dateRange = "today"
    /\ reportPc = "idle"
    /\ run = NoRun
    /\ dailySales = <<>>
    /\ employeePerformance = <<>>
    /\ servicePerformance = <<>>
    /\ peakHours = <<>>
    /\ paymentMethods = <<>>
    /\ customerRetention = "null"
    /\ avgTicketValues = <<>>
    /\ stats = InitialStats
    /\ dashPc = "idle"
    /\ dash = NoDash
    /\ customers = <<>>
    /\ customerDates = NoDates
    /\ customersPc = "idle"
    /\ servicesList = EmptyFn
    /\ editingService = "null"
    /\ dialogOpen = FALSE
    /\ servicesPc = "idle"
    /\ employeesList = EmptyFn
    /\ employeesPc = "idle"
    /\ adminEvent = "none"
    /\ detached = <<>>
    /\ staleRuns = <<>>

InitPagesIdle == InitPages /\ InitGuardIdle

InitAdminIdle == now \in ClockValues /\ db_role = "admin" /\ InitPagesIdle

\* The useState values of the visit form, and no request in flight.
InitFormState ==
    /\ loading = FALSE
    /\ fetchPc = "services"
    /\ services = {}
    /\ employees = {}
    /\ selectedServices = {}
    /\ serviceEmployees = EmptyFn
    /\ customerName = ""
    /\ customerPhone = <<>>
    /\ matchingCustomers = <<>>
    /\ showDropdown = FALSE
    /\ pc = "idle"
    /\ sub = NoSub
    /\ outcome = "none"
    /\ inflight = <<>>
    /\ lastEvent = [kind |-> "init", q |-> <<>>]

InitForm ==
    /\ page = "visits"
    /\ InitFormState

InitVisit == InitTables /\ visits = <<>> /\ InitForm /\ user \in Users /\ InitAdminIdle

NextVisit ==
    \/ OpenVisitForm
    \/ FetchServices
    \/ FetchEmployees
    \/ \E s \in ServiceIds : toggleService(s)
    \/ \E s \in ServiceIds, e \in EmployeeIds : setEmployeeForService(s, e)
    \/ \E n \in TypedNames : setCustomerName(n)
    \/ ClickBlocked
    \/ \E d \in DiscountFields : handleSubmit(d)
    \/ GetUserReturns
    \/ InsertVisitFails
    \/ InsertVisitSucceeds
    \/ InsertServicesFails
    \/ InsertServicesSucceeds
    \/ Cancel
    \/ SignOut

SpecVisit == InitVisit /\ [][NextVisit]_vars

(***************************************************************************)
(* SpecSubmit: one visit form whose requests are all answered: every await *)
(* of handleSubmit resolves, with a result or with an error.               *)
(***************************************************************************)
NextSubmit ==
    \/ OpenVisitForm
    \/ FetchServices
    \/ FetchEmployees
    \/ \E s \in {"A", "B"} : toggleService(s)
    \/ \E s \in {"A", "B"} : setEmployeeForService(s, "e1")
    \/ setCustomerName("Ann")
    \/ handleSubmit(<<>>)
    \/ GetUserReturns
    \/ InsertVisitFails
    \/ InsertVisitSucceeds
    \/ InsertServicesFails
    \/ InsertServicesSucceeds
    \/ Cancel
    \/ SignOut

SpecSubmit ==
    /\ InitVisit
    /\ [][NextSubmit]_vars
    /\ WF_vars(GetUserReturns)
    /\ WF_vars(InsertVisitFails \/ InsertVisitSucceeds)
    /\ WF_vars(InsertServicesFails \/ InsertServicesSucceeds)

(***************************************************************************)
(* SpecNavigate: the visit form of SpecVisit with the Layout's links: the   *)
(* form can be left and opened again while a submission is running.        *)
(***************************************************************************)
InitNavigate == InitVisit

NextNavigate ==
    \/ OpenVisitForm
    \/ FetchServices
    \/ FetchEmployees
    \/ toggleService("A")
    \/ setEmployeeForService("A", "e1")
    \/ setCustomerName("Ann")
    \/ handleSubmit(<<>>)
    \/ GetUserReturns
    \/ InsertVisitFails
    \/ InsertVisitSucceeds
    \/ InsertServicesFails
    \/ InsertServicesSucceeds
    \/ Cancel
    \/ SignOut
    \/ LayoutNavigate
    \/ \E i \in 1..MaxDetached : DetachedGetUserReturns(i)
    \/ \E i \in 1..MaxDetached : DetachedInsertVisitFails(i)
    \/ \E i \in 1..MaxDetached : DetachedInsertVisitSucceeds(i)
    \/ \E i \in 1..MaxDetached : DetachedInsertServicesFails(i)
    \/ \E i \in 1..MaxDetached : DetachedInsertServicesSucceeds(i)

SpecNavigate == InitNavigate /\ [][NextNavigate]_vars

(***************************************************************************)
(* SpecLookup: the phone input of one visit form against a table of past   *)
(* visits.                                                                 *)
(***************************************************************************)
\* A visit on record, as the visit writer stores it.
HistoryRow(id, name, phone) ==
    [id |-> id, customer_name |-> name, customer_phone |-> phone,
     total_amount |-> 2000, discount |-> 0, final_amount |-> 2000,
     payment_method |-> "cash", created_by |-> "u1", created_at |-> id]

Histories ==
    UNION {{[i \in 1..n |-> HistoryRow(i, f[i][1], f[i][2])] :
              f \in [1..n -> Names \X DbPhones]} : n \in 0..MaxHistory}

InitLookup ==
    InitTables /\ visits \in Histories /\ InitForm /\ user \in Users /\ InitAdminIdle

NextLookup ==
    \/ \E phone \in PhoneInputs : handlePhoneChange(phone)
    \/ \E i \in 1..MaxInFlight : LookupReturns(i)
    \/ \E i \in 1..MaxInFlight : LookupFails(i)
    \/ \E k \in 1..MaxHistory : handleCustomerSelect(k)
    \/ PhoneFocus
    \/ PhoneBlurTimeout

SpecLookup == InitLookup /\ [][NextLookup]_vars

(***************************************************************************)
(* SpecReports: the Reports page, the overview dashboard and the Customers *)
(* page, one mounted at a time, against tables of past visits.             *)
(***************************************************************************)
\* When the visits on record were made: two months ago, last month, the last
\* day but two of last month, the first day of this month, and twice this
\* morning.
ReportStamps == {700, 1000, 1400, 1450, 1494, 1497}

\* What a past visit sold, as <<service, employee>> pairs, and its discount.
ReportItems(t, phone) ==
    IF phone = <<1, 1, 2, 1>>
    THEN IF t \in {1000, 1497} THEN {<<"A", "e1">>, <<"B", "e2">>}
         ELSE IF t = 1450 THEN {<<"C", "e2">>}
         ELSE {<<"A", "e1">>}
    ELSE IF t = 1400 THEN {<<"C", "e1">>, <<"A", "e2">>}
         ELSE IF t = 1497 THEN {<<"B", "e1">>}
         ELSE {<<"A", "e2">>, <<"B", "e1">>}

ReportDiscount(t, phone) ==
    IF phone = <<1, 1, 2, 1>> THEN (IF t \in {1000, 1497} THEN 4000 ELSE 0) ELSE 500

\* A past visit, as handleSubmit of the visit form writes it.
ReportVisit(id, t, phone) ==
    LET items == ReportItems(t, phone)
        total == SumOver(items, [x \in items |-> SeedServices[x[1]].price])
    IN [id |-> id,
        customer_name |-> IF t < 1400 THEN "Ann" ELSE "Bob",
        customer_phone |-> phone,
        total_amount |-> total,
        discount |-> ReportDiscount(t, phone),
        final_amount |-> FinalAmount(total, ReportDiscount(t, phone)),
        payment_method |-> IF (phone = <<1, 1, 2, 1>>) = (t \in {1000, 1450}) THEN "card" ELSE "cash",
        created_by |-> "u1",
        created_at |-> t]

ReportLineItems(id, t, phone) ==
    {[visit_id |-> id, service_id |-> x[1], employee_id |-> x[2],
      service_price |-> SeedServices[x[1]].price] : x \in ReportItems(t, phone)}

\* The tables of past visits: up to MaxRows visits in the order they were made.
ReportHistories ==
    UNION {{f \in [1..n -> ReportStamps \X DbPhones] :
              \A i \in 1..n, j \in 1..n : i < j => f[i][1] < f[j][1]} : n \in 0..MaxRows}

\* The names on record: a service named like a property of Object.prototype or
\* not, two employees of the same name or not.
ReportServices == {[SeedServices EXCEPT !["B"].name = nm] : nm \in {"Color", "constructor"}}
ReportProfiles == {[SeedProfiles EXCEPT !["e2"].full_name = nm] : nm \in {"Bob", "Ann"}}

\* An admin opened the page; the role may have been taken away since.
InitReports ==
    /\ \E f \in ReportHistories :
         /\ visits = [i \in DOMAIN f |-> ReportVisit(i, f[i][1], f[i][2])]
         /\ visit_services = UNION {ReportLineItems(i, f[i][1], f[i][2]) : i \in DOMAIN f}
    /\ db_services \in ReportServices
    /\ profiles \in ReportProfiles
    /\ user \in Users
    /\ db_role \in {"admin", "employee"}
    /\ now \in ClockValues
    /\ page = "home"
    /\ InitFormState
    /\ InitPagesIdle

NextReports ==
    \/ OpenReports
    \/ \E range \in DateRanges : setDateRange(range)
    \/ VisitsReturn
    \/ VisitServicesReturn
    \/ ServiceStatsReturn
    \/ PaymentDataReturn
    \/ AllVisitsReturn
    \/ LeaveReports
    \/ OpenOverview
    \/ TodayVisitsReturn
    \/ MonthVisitsReturn
    \/ LastMonthVisitsReturn
    \/ DashServiceStatsReturn
    \/ DashEmployeeStatsReturn
    \/ LeaveOverview
    \/ OpenCustomers
    \/ \E day \in PickerDays \cup {<<>>} : setStartDate(day)
    \/ \E day \in PickerDays \cup {<<>>} : setEndDate(day)
    \/ CustomersReturn
    \/ LeaveCustomers

SpecReports == InitReports /\ [][NextReports]_vars

(***************************************************************************)
(* SpecCatalog: the Services page, the Employees page and the visit form,  *)
(* one mounted at a time, used by an admin.                                *)
(***************************************************************************)
\* The visits on record: each sold service A, done by e1, at 20.00.
CatalogHistory == [i \in 1..(MaxVisits - 1) |-> ReportVisit(i, 700 + i, <<1, 1, 2, 1>>)]

InitCatalog ==
    /\ db_services = [s \in {"A", "C"} |-> SeedServices[s]]
    /\ profiles = SeedProfiles
    /\ visits = CatalogHistory
    /\ visit_services =
         UNION {ReportLineItems(i, 700 + i, <<1, 1, 2, 1>>) : i \in 1..(MaxVisits - 1)}
    /\ user \in Users
    /\ db_role = "admin"
    /\ now \in ClockValues
    /\ page = "home"
    /\ InitFormState
    /\ InitPagesIdle

NextCatalog ==
    \/ OpenServices
    \/ Services_fetchServices
    \/ OpenAddDialog
    \/ OpenEditDialog("A")
    \/ CloseDialog
    \/ \E n \in ServiceNameInputs, p \in PriceFields, d \in DurationFields :
          Services_handleSubmit(n, p, d)
    \/ \E s \in ServiceIds : toggleServiceStatus(s)
    \/ LeaveServices
    \/ OpenEmployees
    \/ Employees_fetchEmployees
    \/ \E e \in EmployeeIds, n \in EmployeeNameInputs : Employees_handleSubmit(e, n)
    \/ \E e \in EmployeeIds : toggleEmployeeStatus(e)
    \/ LeaveEmployees
    \/ OpenVisitForm
    \/ FetchServices
    \/ FetchEmployees
    \/ toggleService("A")
    \/ setEmployeeForService("A", "e1")
    \/ setCustomerName("Ann")
    \/ handleSubmit(<<>>)
    \/ GetUserReturns
    \/ InsertVisitSucceeds
    \/ InsertServicesSucceeds
    \/ Cancel

SpecCatalog == InitCatalog /\ [][NextCatalog]_vars

(***************************************************************************)
(* Properties of the visit writer (checked under SpecVisit).               *)
(***************************************************************************)
\* Some selected service of the form has no employee.
MissingEmployee == \E s \in selectedServices : s \notin DOMAIN serviceEmployees

TablesUnchanged == visits' = visits /\ visit_services' = visit_services

\* The visits with no line item.
Orphans == {i \in 1..Len(visits) : ~\E r \in visit_services : r.visit_id = visits[i].id}

\* C1: with no service selected, no step of the form adds a row to visits or to
\* visit_services or starts a submission, and a submission under way always has
\* a non-empty selection.
C1_NoServiceNoWrite ==
    /\ [](pc # "idle" => sub.selected # {})
    /\ [][(page = "visits" /\ pc = "idle" /\ selectedServices = {})
            => (TablesUnchanged /\ pc' = "idle" /\ outcome' \in {outcome, "blocked"})]_vars

\* C1 witness: a click on the submit control was blocked with nothing selected,
\* the name filled in and the user signed in.
C1_Witness ==
    /\ outcome = "blocked" /\ page = "visits" /\ selectedServices = {}
    /\ customerName # "" /\ user # NoUser /\ fetchPc = "done" /\ ~loading

\* C2: while a selected service lacks an employee, a submit is answered by the
\* missing-employee error, no submission starts and no row is added to either
\* table; no submission under way lacks an assignment.
C2_MissingEmployeeNoWrite ==
    /\ [](pc # "idle" => \A s \in sub.selected : s \in DOMAIN sub.emps)
    /\ [][(page = "visits" /\ pc = "idle" /\ MissingEmployee)
            => /\ TablesUnchanged
               /\ pc' = "idle"
               /\ loading' = FALSE
               /\ (customerName # "" /\ outcome' # outcome) => outcome' = ErrEmployee]_vars

\* C2 witness: the missing-employee error is showing for a form with one
\* service assigned and one not.
C2_Witness ==
    /\ outcome = ErrEmployee /\ page = "visits" /\ pc = "idle"
    /\ MissingEmployee /\ DOMAIN serviceEmployees # {}

\* C3: the checks run in the order selection, assignment, user.  A submission
\* that finds no user ends with the login error and writes nothing; with an
\* assignment missing and no user only the missing-employee error is reported;
\* with nothing selected and no user no error is reported at all.
C3_ValidationOrder ==
    /\ [](\A i \in 1..Len(visits) : visits[i].created_by \in Users)
    /\ [][(pc = "getUser" /\ user = NoUser /\ pc' # pc)
            => (pc' = "idle" /\ outcome' = ErrAuth /\ loading' = FALSE /\ TablesUnchanged)]_vars
    /\ [][(page = "visits" /\ pc = "idle" /\ user = NoUser /\ MissingEmployee
           /\ customerName # "" /\ outcome' # outcome)
            => (outcome' = ErrEmployee /\ pc' = "idle")]_vars
    /\ [][(page = "visits" /\ pc = "idle" /\ user = NoUser /\ selectedServices = {})
            => outcome' \in {outcome, "blocked"}]_vars

\* C3 witness: the login error is showing, the user is gone, nothing was written.
C3_Witness ==
    /\ outcome = ErrAuth /\ user = NoUser /\ pc = "idle" /\ visits = <<>>
    /\ selectedServices # {} /\ ~MissingEmployee

\* The price the form holds for a service of the running submission.
SubPrice(x) ==
    IF x \in sub.selected THEN (CHOOSE r \in sub.services : r.id = x).price ELSE 0

\* C4: the amounts of a submission are total = sum of the selected services'
\* prices and final = total - discount, unclamped, and the visit row stores
\* them: 20.00 + 15.50 with discount 5.00 gives 30.50, with 40.00 gives -4.50.
C4_Amounts ==
    /\ pc \in {"insertVisit", "insertServices"} =>
         /\ sub.totalAmount = SubPrice("A") + SubPrice("B") + SubPrice("C")
         /\ sub.finalAmount = sub.totalAmount - sub.discount
         /\ (sub.selected = {"A", "B"} /\ sub.discount = 500) => sub.finalAmount = 3050
         /\ (sub.selected = {"A", "B"} /\ sub.discount = 4000) => sub.finalAmount = -450
    /\ pc = "insertServices" =>
         \E i \in 1..Len(visits) :
            /\ visits[i].id = sub.visitId
            /\ visits[i].total_amount = sub.totalAmount
            /\ visits[i].discount = sub.discount
            /\ visits[i].final_amount = sub.finalAmount
    /\ \A i \in 1..Len(visits) :
         visits[i].final_amount = visits[i].total_amount - visits[i].discount

\* C4 witness: both example visits are stored.
C4_Witness ==
    /\ \E i \in 1..Len(visits) :
         visits[i].total_amount = 3550 /\ visits[i].discount = 500
         /\ visits[i].final_amount = 3050
    /\ \E i \in 1..Len(visits) :
         visits[i].total_amount = 3550 /\ visits[i].discount = 4000
         /\ visits[i].final_amount = -450

\* C5 (as claimed): every visit row has final = total - discount with total and
\* final both non-negative.
C5_AmountsNonNegative ==
    \A i \in 1..Len(visits) :
       /\ visits[i].final_amount = visits[i].total_amount - visits[i].discount
       /\ visits[i].total_amount >= 0
       /\ visits[i].final_amount >= 0

\* C6: when the line-item insert ends without storing a row, the visit row it
\* belongs to stays, without line items; the error toast shows and the form
\* stays mounted.
C6_OrphanVisitStays ==
    /\ [](outcome = ErrServices => Orphans # {})
    /\ [][(pc = "insertServices" /\ pc' # pc /\ visit_services' = visit_services)
            => /\ visits' = visits
               /\ sub.visitId \in VisitIds(visits')
               /\ ~\E r \in visit_services' : r.visit_id = sub.visitId
               /\ outcome' = ErrServices
               /\ page' = "visits"
               /\ loading' = FALSE]_vars

\* C6 witness: the error of a failed line-item insert is showing and the
\* visit of that submission is in the table with no line item.
C6_Witness ==
    /\ outcome = ErrServices /\ page = "visits" /\ pc = "idle"
    /\ Len(visits) \in Orphans

\* C7: every line item, stored or about to be sent, names a visit that is in
\* the visits table.
C7_LineItemHasVisit ==
    /\ \A r \in visit_services : r.visit_id \in VisitIds(visits)
    /\ pc = "insertServices" =>
         (sub.rows # {} /\ \A r \in sub.rows : r.visit_id = sub.visitId
                                              /\ r.visit_id \in VisitIds(visits))

\* C7 witness: line items of two different visits are stored.
C7_Witness ==
    \E r1, r2 \in visit_services : r1.visit_id # r2.visit_id

\* The line items a step adds.
NewItems == visit_services' \ visit_services

\* C21: the line items are written after the visit row, in one step: one row
\* per service selected at the submit, each with the new visit's id, the
\* employee assigned to the service and the price the form holds for it, and
\* nothing else.
C21_VisitThenLineItems ==
    [][NewItems # {} =>
         /\ pc = "insertServices"
         /\ visits' = visits
         /\ sub.visitId = visits[Len(visits)].id
         /\ ~\E r \in visit_services : r.visit_id = sub.visitId
         /\ Cardinality(NewItems) = Cardinality(sub.selected)
         /\ \A r \in NewItems :
              /\ r.visit_id = sub.visitId
              /\ r.service_id \in sub.selected
              /\ r.employee_id = sub.emps[r.service_id]
              /\ \E x \in sub.services : x.id = r.service_id /\ x.price = r.service_price
         /\ \A x \in sub.selected :
              Cardinality({r \in NewItems : r.service_id = x}) = 1]_vars

\* C21 witness: a submission with two services has succeeded, and the visit
\* has its two line items, at 20.00 and at 15.50.
C21_Witness ==
    /\ outcome = OkVisit
    /\ Len(visits) > 0
    /\ LET mine == {r \in visit_services : r.visit_id = visits[Len(visits)].id}
       IN /\ Cardinality(mine) = 2
          /\ \E r \in mine : r.service_id = "A" /\ r.service_price = 2000 /\ r.employee_id = "e1"
          /\ \E r \in mine : r.service_id = "B" /\ r.service_price = 1550 /\ r.employee_id = "e1"

\* C23: only selected services have an employee assigned; a step that
\* deselects a service removes its assignment, and a step that selects a
\* service leaves it without an employee.
C23_AssignedAreSelected ==
    /\ [](DOMAIN serviceEmployees \subseteq selectedServices)
    /\ [][\A s \in ServiceIds :
            /\ (s \in selectedServices /\ s \notin selectedServices')
                 => s \notin DOMAIN serviceEmployees'
            /\ (s \notin selectedServices /\ s \in selectedServices')
                 => s \notin DOMAIN serviceEmployees']_vars

\* C23 witness: service A was submitted with an employee, and the form, still
\* mounted while the requests run, has A selected with no employee: it was
\* deselected and selected again in between.
C23_Witness ==
    /\ page = "visits"
    /\ pc # "idle"
    /\ "A" \in DOMAIN sub.emps
    /\ "A" \in selectedServices
    /\ "A" \notin DOMAIN serviceEmployees

\* The submissions that have begun and not ended.
InFlight == Len(detached) + Len(Running)

\* C24 (as claimed): while a submission is in flight a mounted form is loading
\* and its submit control is disabled, and no second submission is in flight.
C24_OneSubmissionAtATime ==
    /\ (InFlight > 0 /\ page = "visits") => (loading /\ SubmitDisabled)
    /\ InFlight <= 1

\* The line items of a visit, and the sum of their prices.
ItemsOf(visitId) == {r \in visit_services : r.visit_id = visitId}
ItemsTotal(visitId) ==
    LET mine == ItemsOf(visitId) IN SumOver(mine, [r \in mine |-> r.service_price])

\* C26: the line items of a visit that has any sum to the total_amount of
\* its row, and the step that stores them stores rows that sum to it.
C26_ItemsSumToTotal ==
    /\ [](\A i \in 1..Len(visits) :
            ItemsOf(visits[i].id) # {} => ItemsTotal(visits[i].id) = visits[i].total_amount)
    /\ [][(pc = "insertServices" /\ outcome' = OkVisit) =>
            /\ SumOver(sub.rows, [r \in sub.rows |-> r.service_price]) = sub.totalAmount
            /\ {r \in visit_services' : r.visit_id = sub.visitId} = sub.rows]_vars

\* C26 witness: a visit of two services with a discount is stored whole: the
\* items sum to 35.50, the total, and not to the 30.50 that was paid.
C26_Witness ==
    \E i \in 1..Len(visits) :
       /\ Cardinality(ItemsOf(visits[i].id)) = 2
       /\ ItemsTotal(visits[i].id) = 3550
       /\ visits[i].total_amount = 3550
       /\ visits[i].final_amount = 3050

\* The toasts handleSubmit ends with after its first await.
EndToasts == {ErrAuth, ErrVisit, ErrServices, OkVisit}

\* C25: a submit that stops at the assignment check leaves loading false; a
\* submission that is running ends, with loading false and with the toast of
\* the path it took; while it runs, loading is true.
C25_LoadingEnds ==
    /\ [][(pc = "idle" /\ pc' = "idle" /\ outcome' = ErrEmployee) => loading' = FALSE]_vars
    /\ [](pc # "idle" => loading)
    /\ [](pc # "idle" => <>(pc = "idle" /\ ~loading /\ outcome \in EndToasts))

\* C25 witness: a submission has ended at the failed visit insert, and the
\* form is no longer loading.
C25_Witness ==
    /\ page = "visits"
    /\ outcome = ErrVisit
    /\ pc = "idle"
    /\ ~loading
    /\ selectedServices # {}

(***************************************************************************)
(* SpecOverlap: the Reports page of an admin over a fixed history of one   *)
(* visit a month back, one last week and one today; the range may be       *)
(* changed while a run of fetchReports is in flight.                       *)
(***************************************************************************)
OverlapHistory ==
    <<ReportVisit(1, 700, <<1, 1, 2, 1>>), ReportVisit(2, 1400, <<1, 2, 1, 2>>),
      ReportVisit(3, 1497, <<1, 1, 2, 1>>)>>

InitOverlap ==
    /\ visits = OverlapHistory
    /\ visit_services = ReportLineItems(1, 700, <<1, 1, 2, 1>>)
                          \cup ReportLineItems(2, 1400, <<1, 2, 1, 2>>)
                          \cup ReportLineItems(3, 1497, <<1, 1, 2, 1>>)
    /\ db_services = SeedServices
    /\ profiles = SeedProfiles
    /\ user \in Users
    /\ db_role = "admin"
    /\ now \in ClockValues
    /\ page = "home"
    /\ InitFormState
    /\ InitPagesIdle

NextOverlap ==
    \/ OpenReports
    \/ \E range \in DateRanges : setDateRange(range)
    \/ \E range \in DateRanges : setDateRangeInFlight(range)
    \/ VisitsReturn
    \/ VisitServicesReturn
    \/ ServiceStatsReturn
    \/ PaymentDataReturn
    \/ AllVisitsReturn
    \/ \E i \in 1..MaxStale : StaleReturn(i)

SpecOverlap == InitOverlap /\ [][NextOverlap]_vars

(***************************************************************************)
(* ProtectedRoute from its mount on, for either role of u1's profile.      *)
(***************************************************************************)
InitGuard ==
    /\ InitTables /\ visits = <<>> /\ InitForm
    /\ now \in ClockValues /\ db_role \in {"admin", "employee"} /\ InitPages
    /\ user \in GuardUsers \cup {NoUser}
    /\ requiredRole \in RequiredRoles
    /\ guardUser = NoUser
    /\ guardRole = "null"
    /\ guardLoading = TRUE
    /\ checkAuth = [pc |-> "getSession", user |-> NoUser]
    /\ callbacks = <<>>

NextGuard ==
    \/ \E role \in RequiredRoles, u \in GuardUsers \cup {NoUser} : GuardMount(role, u)
    \/ \E role \in RequiredRoles : GuardRoute(role)
    \/ CheckAuthSessionError
    \/ CheckAuthGetSession
    \/ \E failed \in BOOLEAN : CheckAuthProfile(failed)
    \/ CheckAuthThrows
    \/ \E u \in GuardUsers \cup {NoUser} : AuthStateChange(u)
    \/ \E i \in 1..MaxCallbacks, failed \in BOOLEAN : CallbackProfile(i, failed)
    \/ \E i \in 1..MaxCallbacks : CallbackThrows(i)

SpecGuard == InitGuard /\ [][NextGuard]_vars

(***************************************************************************)
(* Properties of the customer resolver (checked under SpecLookup).         *)
(***************************************************************************)
\* C8 (as claimed): a phone input shorter than 3 characters has no suggestion
\* and no dropdown, whatever is in flight.
C8_ShortInputNoSuggestions ==
    Len(customerPhone) < 3 => (matchingCustomers = <<>> /\ ~showDropdown)

\* The phones of the suggestion list.
SuggestedPhones == {matchingCustomers[k].customer_phone : k \in 1..Len(matchingCustomers)}

\* The most recent visit with the given phone.
LatestWith(phone) ==
    CHOOSE i \in 1..Len(visits) :
        /\ visits[i].customer_phone = phone
        /\ \A j \in 1..Len(visits) : visits[j].customer_phone = phone => j <= i

\* C9: the list a response produces has one entry for each phone among the
\* visits matching the query and no other, each with the name of the most
\* recent visit of that phone, ordered from the most recent phone down.
C9_DedupedSuggestions ==
    lastEvent.kind = "data" =>
        /\ Len(lastEvent.q) >= 3
        /\ SuggestedPhones = {visits[i].customer_phone : i \in Matching(visits, lastEvent.q)}
        /\ \A j, k \in 1..Len(matchingCustomers) :
              j # k => matchingCustomers[j].customer_phone # matchingCustomers[k].customer_phone
        /\ \A k \in 1..Len(matchingCustomers) :
              matchingCustomers[k].customer_name =
                 visits[LatestWith(matchingCustomers[k].customer_phone)].customer_name
        /\ \A j, k \in 1..Len(matchingCustomers) :
              j < k => LatestWith(matchingCustomers[j].customer_phone)
                         > LatestWith(matchingCustomers[k].customer_phone)

\* C9 witness: a response produced two suggestions from three matching visits,
\* two of which share a phone under different names.
C9_Witness ==
    /\ lastEvent.kind = "data"
    /\ Len(matchingCustomers) = 2
    /\ \E i, j \in Matching(visits, lastEvent.q) :
          /\ i < j
          /\ visits[i].customer_phone = visits[j].customer_phone
          /\ visits[i].customer_name # visits[j].customer_name

\* inflight is a prefix of its next value.
InflightKept ==
    /\ Len(inflight') >= Len(inflight)
    /\ SubSeq(inflight', 1, Len(inflight)) = inflight

\* C10: a change of the input cancels no lookup, and every response, whatever
\* the input is by then, replaces the list by the result of its own query.
C10_ResponsesNotSequenced ==
    /\ [](lastEvent.kind = "data" =>
            /\ (matchingCustomers # <<>>) <=> (Matching(visits, lastEvent.q) # {})
            /\ \A p \in SuggestedPhones : Contains(p, lastEvent.q))
    /\ [][customerPhone' # customerPhone => InflightKept]_vars
    /\ [][Len(inflight') < Len(inflight) =>
            /\ lastEvent'.kind \in {"data", "null"}
            /\ showDropdown' = (matchingCustomers' # <<>>)]_vars

\* C10 witness: every lookup has been answered, the input was typed last (no
\* suggestion was picked since: the name is empty) and matches no visit, yet
\* the list holds the result of an earlier, different query, which therefore
\* arrived after the answer to the current input's lookup.
C10_Witness ==
    /\ inflight = <<>>
    /\ customerName = ""
    /\ Len(customerPhone) >= 3
    /\ Matching(visits, customerPhone) = {}
    /\ lastEvent.kind = "data" /\ lastEvent.q # customerPhone
    /\ matchingCustomers # <<>>

(***************************************************************************)
(* Properties of the reports (checked under SpecReports).                  *)
(***************************************************************************)
\* Val(seq[1]) + ... + Val(seq[n])
SeqSum(seq, Val(_)) ==
    LET acc[i \in 0..Len(seq)] == IF i = 0 THEN 0 ELSE acc[i - 1] + Val(seq[i])
    IN acc[Len(seq)]

\* The rows of the running (or last) fetchReports' window.
WindowVisits == VisitsBetween(run.startDate, run.endDate)
WindowItems == JoinedItems(WindowVisits)

\* The report lists that the running (or last) fetchReports has set.
SalesSet == reportPc \in {"visitServices", "serviceStats", "paymentData", "allVisits", "done"}
EmployeesSet == reportPc \in {"serviceStats", "paymentData", "allVisits", "done"}
ServicesSet == reportPc \in {"paymentData", "allVisits", "done"}
PaymentsSet == reportPc \in {"allVisits", "done"}

\* C11 (as claimed): for each grouping of the reports, the per-group sums add
\* up to the total over the rows of the window and the per-group counts to
\* the number of rows: visits by date, by payment method and by phone, line
\* items by employee name and by service name.
C11_GroupSumsConserved ==
    /\ SalesSet =>
         /\ SeqSum(dailySales, LAMBDA g : g.revenue) = Revenue(Amounts(WindowVisits))
         /\ SeqSum(dailySales, LAMBDA g : g.visits) = Len(WindowVisits)
    /\ PaymentsSet =>
         /\ SeqSum(paymentMethods, LAMBDA g : g.total_amount) = Revenue(Amounts(WindowVisits))
         /\ SeqSum(paymentMethods, LAMBDA g : g.count) = Len(WindowVisits)
    /\ (page = "customers" /\ customersPc = "idle") =>
         /\ SeqSum(customers, LAMBDA g : g.total_spending)
              = Revenue(Amounts(CustomersQuery(customerDates)))
         /\ SeqSum(customers, LAMBDA g : g.total_visits) = Len(CustomersQuery(customerDates))
    /\ EmployeesSet =>
         /\ SeqSum(employeePerformance, LAMBDA g : g.total_revenue)
              = SeqSum(WindowItems, LAMBDA r : r.service_price)
         /\ SeqSum(employeePerformance, LAMBDA g : g.services_count) = Len(WindowItems)
    /\ ServicesSet =>
         /\ SeqSum(servicePerformance, LAMBDA g : g.total_revenue)
              = SeqSum(WindowItems, LAMBDA r : r.service_price)
         /\ SeqSum(servicePerformance, LAMBDA g : g.times_used) = Len(WindowItems)

\* The visits of the window made on the given day.
VisitsOn(day) == SelectSeq(WindowVisits, LAMBDA v : toLocaleDateString(v.created_at) = day)

\* Today's visits, as the dashboard counts them.
TodaysVisits == VisitsSince(StartOfDay(now))

\* C12: the average-ticket list has one entry for each day with a visit in the
\* window and no other, each the day's total final_amount divided by the
\* day's number of visits; the dashboard's average ticket is today's revenue
\* divided by today's number of visits, and 0 when there is none; no average
\* has a zero divisor.
C12_AverageTicket ==
    /\ reportPc = "done" =>
         /\ {avgTicketValues[i].date : i \in 1..Len(avgTicketValues)}
              = {toLocaleDateString(WindowVisits[i].created_at) : i \in 1..Len(WindowVisits)}
         /\ \A i, j \in 1..Len(avgTicketValues) :
               avgTicketValues[i].date = avgTicketValues[j].date => i = j
         /\ \A i \in 1..Len(avgTicketValues) :
               LET on == VisitsOn(avgTicketValues[i].date)
               IN /\ Len(on) >= 1
                  /\ IsQuotient(avgTicketValues[i].avg_value, Revenue(Amounts(on)), Len(on))
    /\ (page = "overview" /\ dashPc = "done") =>
         /\ stats.avgTicketSize.den # 0
         /\ IF Len(TodaysVisits) = 0
            THEN stats.avgTicketSize = Zero
            ELSE IsQuotient(stats.avgTicketSize, Revenue(Amounts(TodaysVisits)),
                            Len(TodaysVisits))

\* C12 witness: the list is set for a window of two days, one of them with two
\* visits of different amounts.
C12_Witness ==
    /\ reportPc = "done"
    /\ Len(avgTicketValues) = 2
    /\ \E i \in 1..Len(avgTicketValues) :
          LET on == VisitsOn(avgTicketValues[i].date)
          IN Len(on) = 2 /\ on[1].final_amount # on[2].final_amount

\* C13: the retention rate that fetchReports sets lies between 0 and 100, and
\* is 0 when no customer has a visit in the window.
C13_RetentionInRange ==
    reportPc = "done" =>
        LET r == customerRetention.retention_rate
        IN /\ r.den > 0
           /\ 0 <= r.num
           /\ r.num <= 100 * r.den
           /\ Len(RetentionQuery(run.startDate, run.endDate)) = 0 => r = Zero

\* C13 witness: retention is set for a window without visits while the table
\* has some, and the counts are both 0.
C13_Witness ==
    /\ reportPc = "done"
    /\ Len(visits) > 0
    /\ Len(RetentionQuery(run.startDate, run.endDate)) = 0
    /\ customerRetention.new_customers = 0
    /\ customerRetention.returning_customers = 0

\* The phones with a visit in the window.
WindowPhones == {WindowVisits[i].customer_phone : i \in 1..Len(WindowVisits)}

\* The customer's first visit of all is before the window's start.
VisitedBefore(phone) ==
    \E i \in 1..Len(visits) :
        visits[i].customer_phone = phone /\ visits[i].created_at < run.startDate

\* C14 (as claimed): the customers of the window counted as returning are
\* those with a visit before the window's start, the others are counted as new.
C14_ReturningIffEarlierVisit ==
    reportPc = "done" =>
        /\ customerRetention.returning_customers
             = Cardinality({p \in WindowPhones : VisitedBefore(p)})
        /\ customerRetention.new_customers
             = Cardinality({p \in WindowPhones : ~VisitedBefore(p)})

\* The revenue of this month and of last month, as the dashboard takes them.
MonthRevenue == Revenue(Amounts(VisitsSince(StartOfMonth(now))))
LastMonthRevenue ==
    Revenue(Amounts(VisitsBetween(StartOfMonth(now) - 720, StartOfMonth(now) - 24)))

\* C15 (as claimed): the growth rate is (this month - last month) / last month
\* x 100 whenever last month's revenue is not 0, and 0 when it is 0.
C15_GrowthRate ==
    (page = "overview" /\ dashPc = "done") =>
        IF LastMonthRevenue # 0
        THEN IsQuotient(stats.growthRate, (MonthRevenue - LastMonthRevenue) * 100,
                        LastMonthRevenue)
        ELSE stats.growthRate = Zero

\* The label a line item is reported under: the name on record, or "Unknown"
\* where the reference gives no row.
EmployeeLabel(r) == IF r.employee = <<>> THEN "Unknown" ELSE r.employee[1]
ServiceLabel(r) == IF r.service = <<>> THEN "Unknown" ELSE r.service[1]

\* C16 (as claimed): both line-item reports are set whatever references are
\* missing, and each holds, for every label among the window's line items
\* ("Unknown" for a missing reference), one bucket with the number and the
\* price sum of the line items of that label.
C16_UnknownBucket ==
    /\ EmployeesSet =>
         \A k \in 1..Len(WindowItems) :
            LET l == EmployeeLabel(WindowItems[k])
                mine == SelectSeq(WindowItems, LAMBDA r : EmployeeLabel(r) = l)
            IN \E i \in 1..Len(employeePerformance) :
                  /\ employeePerformance[i].employee_name = l
                  /\ employeePerformance[i].services_count = Len(mine)
                  /\ employeePerformance[i].total_revenue
                       = SeqSum(mine, LAMBDA r : r.service_price)
    /\ ServicesSet =>
         \A k \in 1..Len(WindowItems) :
            LET l == ServiceLabel(WindowItems[k])
                mine == SelectSeq(WindowItems, LAMBDA r : ServiceLabel(r) = l)
            IN \E i \in 1..Len(servicePerformance) :
                  /\ servicePerformance[i].service_name = l
                  /\ servicePerformance[i].times_used = Len(mine)
                  /\ servicePerformance[i].total_revenue
                       = SeqSum(mine, LAMBDA r : r.service_price)

\* Today's line items as the dashboard reads them, and their group keys.
TodaysItems == JoinedItems(VisitsSince(StartOfDay(now)))
TodaysServiceKeys == [i \in 1..Len(TodaysItems) |-> serviceName(TodaysItems[i])]
TodaysEmployeeKeys == [i \in 1..Len(TodaysItems) |-> employeeName(TodaysItems[i])]

\* The summed price of the rows of one group, and the row a group starts at.
GroupSum(keys, k) ==
    LET acc[i \in 0..Len(keys)] ==
          IF i = 0 THEN 0
          ELSE acc[i - 1] + (IF keys[i] = k THEN TodaysItems[i].service_price ELSE 0)
    IN acc[Len(keys)]

FirstRow(keys, k) == CHOOSE i \in 1..Len(keys) : keys[i] = k /\ \A j \in 1..(i - 1) : keys[j] # k

\* b is the group with the largest sum, the earliest one among equals; "-"
\* when there is no row.
IsBest(keys, b) ==
    IF Len(keys) = 0 THEN b = "-"
    ELSE /\ \E i \in 1..Len(keys) : keys[i] = b
         /\ \A j \in 1..Len(keys) :
              \/ GroupSum(keys, keys[j]) < GroupSum(keys, b)
              \/ /\ GroupSum(keys, keys[j]) = GroupSum(keys, b)
                 /\ FirstRow(keys, b) <= FirstRow(keys, keys[j])

\* C22: the best service and the best employee of the dashboard are the
\* groups of today's line items with the largest summed price, the group met
\* first in the rows among equals, and "-" when there is no line item today.
C22_BestIsMaximum ==
    (page = "overview" /\ dashPc = "done") =>
       /\ IsBest(TodaysServiceKeys, stats.bestService)
       /\ IsBest(TodaysEmployeeKeys, stats.bestEmployee)

(***************************************************************************)
(* Properties of the catalog (checked under SpecCatalog).                  *)
(***************************************************************************)
ListedIds == {s.id : s \in services}

\* C17: a visit form that loads its services lists no service that is
\* inactive in the table, and a step that deactivates a service leaves every
\* line item as it was.
C17_DeactivatedNotOffered ==
    [][/\ (page = "visits" /\ fetchPc = "services" /\ fetchPc' # "services")
            => \A s \in DOMAIN db_services : ~db_services[s].active => s \notin ListedIds'
       /\ (\E s \in DOMAIN db_services : db_services[s].active /\ ~db_services'[s].active)
            => visit_services' = visit_services]_vars

\* Service A was deactivated, a line item references it, and the form that
\* was opened afterwards has loaded its list without it.
C17_Witness ==
    /\ page = "visits"
    /\ fetchPc = "done"
    /\ ~db_services["A"].active
    /\ \E r \in visit_services : r.service_id = "A"
    /\ "A" \notin ListedIds
    /\ ListedIds # {}

\* C18: a step that changes the price of a service changes no line item and
\* no visit row.
C18_PriceIsCopied ==
    [][(\E s \in DOMAIN db_services : db_services'[s].price # db_services[s].price)
          => /\ visit_services' = visit_services
             /\ visits' = visits]_vars

\* A line item and its visit still carry 20.00 for a service that now costs
\* 25.00.
C18_Witness ==
    \E r \in visit_services :
       /\ r.service_id \in DOMAIN db_services
       /\ r.service_price = 2000
       /\ db_services[r.service_id].price = 2500
       /\ \E i \in 1..Len(visits) : visits[i].id = r.visit_id /\ visits[i].total_amount = 2000

\* C27: a submit of the edit form that is stored leaves the edited service
\* active, whatever it was, with the fields of the form.
C27_EditReactivates ==
    [][(page = "services" /\ page' = "services" /\ dialogOpen /\ ~dialogOpen'
        /\ editingService # "null" /\ editingService' = "null")
          => /\ db_services'[editingService].active
             /\ \E n \in ServiceNameInputs, p \in PriceFields, d \in DurationFields :
                  /\ ServiceFormValid(n, p, d)
                  /\ db_services'[editingService].name = n
                  /\ <<db_services'[editingService].price>> = Scaled(p, 2)
             /\ \A s \in DOMAIN db_services \ {editingService} :
                  db_services'[s] = db_services[s]]_vars

\* C27 witness: the last request was an edit of service A, which was inactive
\* and is active now under its new name.
C27_Witness ==
    /\ adminEvent = "reactivate"
    /\ db_services["A"].active
    /\ db_services["A"].name = "Gel"
    /\ ~dialogOpen

\* C28: with the dialog closed, a step that changes a stored active flag sets
\* it to the negation of the page's copy, under any staleness of the copy; so
\* once the stored flag differs from the copy no such step changes it again.
C28_ToggleNegatesCopy ==
    [][\A s \in DOMAIN db_services :
         (page = "services" /\ ~dialogOpen)
           => /\ db_services'[s].active # db_services[s].active
                   => /\ s \in DOMAIN servicesList
                      /\ db_services'[s].active = ~servicesList[s].active
              /\ (s \in DOMAIN servicesList
                  /\ servicesList[s].active # db_services[s].active)
                   => db_services'[s].active = db_services[s].active]_vars

\* C28 witness: service A is listed as active and stored as inactive, and the
\* last request was a second toggle that wrote inactive again.
C28_Witness ==
    /\ page = "services"
    /\ adminEvent = "rewrite"
    /\ servicesPc = "fetch"
    /\ servicesList["A"].active
    /\ ~db_services["A"].active

RetentionOf(range) ==
    LET w == getDateRange(range, now)
    IN retention(RetentionQuery(w.startDate, w.endDate), w.startDate)

TicketsOf(range) ==
    LET w == getDateRange(range, now)
    IN dailyTickets(VisitsBetween(w.startDate, w.endDate))

\* C30: a change of the range while fetchReports is awaiting a query keeps
\* that run going beside the new one, and the last answer to an overtaken run
\* stores the average tickets of that run's own window, whatever the range
\* selected by then and whatever the newer run has stored.
C30_RunsNotSequenced ==
    /\ [][(dateRange' # dateRange /\ reportPc \notin {"idle", "done"})
            => /\ staleRuns' = Append(staleRuns, [pc |-> reportPc, run |-> run])
               /\ reportPc' = "visits"]_vars
    /\ [][Len(staleRuns') < Len(staleRuns)
            => \E i \in 1..Len(staleRuns) :
                 LET r == staleRuns[i].run
                 IN /\ staleRuns[i].pc = "allVisits"
                    /\ staleRuns' = RemoveAt(staleRuns, i)
                    /\ avgTicketValues' = dailyTickets(r.visits)
                    /\ r.visits = VisitsBetween(r.startDate, r.endDate)]_vars

\* C30 witness: every run has ended, the range selected is today, and the
\* average tickets are those of the month, which the run for today does not
\* give: the run for the month ended after the run for today.
C30_Witness ==
    /\ page = "reports"
    /\ reportPc = "done"
    /\ staleRuns = <<>>
    /\ dateRange = "today"
    /\ avgTicketValues = TicketsOf("month")
    /\ avgTicketValues # TicketsOf("today")
    /\ customerRetention = RetentionOf("month")
    /\ customerRetention # RetentionOf("today")

\* C19: every row of the services table has price >= 0 and
\* duration_minutes >= 1.
C19_PriceAndDurationBounds ==
    \A s \in DOMAIN db_services :
       /\ db_services[s].price >= 0
       /\ db_services[s].duration_minutes >= 1

\* C20: no step removes a row: every service and every profile stays, the
\* visits on record stay as they are, and every line item stays.
C20_NoRowRemoved ==
    [][/\ DOMAIN db_services \subseteq DOMAIN db_services'
       /\ DOMAIN profiles \subseteq DOMAIN profiles'
       /\ Len(visits) <= Len(visits')
       /\ \A i \in 1..Len(visits) : visits'[i] = visits[i]
       /\ visit_services \subseteq visit_services']_vars

\* A service and an employee were deactivated, a service was created and a
\* visit was written, and the rows of before are all there.
C20_Witness ==
    /\ ~db_services["A"].active
    /\ ~profiles["e1"].active
    /\ "B" \in DOMAIN db_services
    /\ Len(visits) = MaxVisits
    /\ \E r \in visit_services : r.visit_id = visits[MaxVisits].id
    /\ \E r \in visit_services : r.visit_id = visits[1].id

====
